---- MODULE Spec2Model ----
(***************************************************************************)
(* Skippy: the prompt orchestrator (runPrompt), its per-channel abort      *)
(* flags and pending continuations, and the tool dispatch it drives.       *)
(* Every await of runPrompt is a program point (pc); the code between two   *)
(* awaits is one atomic step, as in a single-threaded event loop.          *)
(***************************************************************************)
EXTENDS Integers, Sequences, FiniteSets, TLC

\* ---------------------------------------------------------------- bounds
MaxChains == 2
MaxLoopLimit == 2
MaxActions == 3
SysMaxActions == 1
MaxTicks == 3
MaxRetries == 7

Chains == 1..MaxChains

\* channelId = discordMessage?.channel?.id ?? 'cli'
CliChannel == "cli"
DiscordChannels == {"d1"}
Channels == DiscordChannels \cup {CliChannel}

\* ---------------------------------------------------------------- prompts
\* A prompt text is its words, a flag for a trailing run of [!.,?], and a
\* flag telling whether the chat gateway wrapped it as
\* "Recent conversation: ... Current request: <text>".
EmptyPrompt == [wrapped |-> FALSE, words |-> <<>>, punct |-> FALSE]

ToLowerCase(w) ==
  CASE w = "Yes" -> "yes"
    [] w = "OK" -> "ok"
    [] OTHER -> w

affirmatives ==
  { <<"yes">>, <<"yeah">>, <<"yep">>, <<"yup">>, <<"sure">>, <<"ok">>, <<"okay">>,
    <<"continue">>, <<"go", "ahead">>, <<"proceed">>, <<"go", "on">>,
    <<"keep", "going">>, <<"yes", "please">>, <<"please", "continue">>,
    <<"do", "it">>, <<"go", "for", "it">>, <<"absolutely">>, <<"definitely">>,
    <<"of", "course">>, <<"certainly">> }

startsWithSpace(s, a) == Len(s) > Len(a) /\ SubSeq(s, 1, Len(a)) = a

isAffirmativeResponse(text) ==
  LET s == [k \in 1..Len(text.words) |-> ToLowerCase(text.words[k])]
  IN \E a \in affirmatives : s = a \/ startsWithSpace(s, a)

PromptInvalid(text) == text.words = <<>>

\* ---------------------------------------------------------------- tool results
\* What property access on a tool's return value yields in runPrompt:
\* shape is the kind of value, success/error/exitCode its own fields,
\* elemError/elemExit the fields of the entries of an array value.
ObjResult(success, error, exitCode, origin) ==
  [shape |-> "object", success |-> success, error |-> error, exitCode |-> exitCode,
   elemError |-> "absent", elemExit |-> 0, origin |-> origin]

ArrResult(elemError, elemExit) ==
  [shape |-> "array", success |-> "absent", error |-> "absent", exitCode |-> 0,
   elemError |-> elemError, elemExit |-> elemExit, origin |-> "returned"]

NoValue ==
  [shape |-> "undefined", success |-> "absent", error |-> "absent", exitCode |-> 0,
   elemError |-> "absent", elemExit |-> 0, origin |-> "none"]

NullResult == [NoValue EXCEPT !.shape = "null", !.origin = "returned"]

\* catch (err) { toolResult = { error: err.message, exitCode: 1 } }
ThrownResult == ObjResult("absent", "msg", 1, "caught")

FileReadOk == ObjResult("absent", "null", 0, "returned")
FileReadFailed == ObjResult("absent", "msg", 1, "returned")
MemoryOk == ObjResult("true", "absent", 0, "returned")
MemoryFailed == ObjResult("false", "msg", 0, "returned")
BashOk == ArrResult("null", 0)
BashFailed == ArrResult("msg", 1)

toolRegistry == {"FileReadTool", "BashTool", "MemoryTool"}

\* executeToolCall: the values tool.run can produce, or its throw as caught
\* by runPrompt; a name that is not registered yields null.
executeToolCall(tool) ==
  CASE tool = "FileReadTool" -> {FileReadOk, FileReadFailed, ThrownResult}
    [] tool = "BashTool" -> {BashOk, BashFailed}
    [] tool = "MemoryTool" -> {MemoryOk, MemoryFailed}
    [] OTHER -> {NullResult}

\* r.result?.success === false || r.result?.error
resultFailed(r) == r.success = "false" \/ r.error = "msg"

\* A tool call that reports failure to the model: success:false, an error
\* message, or a shell command whose entry carries an error / non-zero exit.
ReportsFailure(r) ==
  \/ r.success = "false"
  \/ r.error = "msg"
  \/ (r.shape = "array" /\ (r.elemError = "msg" \/ r.elemExit # 0))

\* ---------------------------------------------------------------- responses
FinalAnswers == {"", " ", "ans"}

trim(s) == IF s = " " THEN "" ELSE s

NoResponse == [kind |-> "none"]
Fragment == [kind |-> "fragment"]

Envelope(actions, fa, cont) ==
  [kind |-> "envelope", actions |-> actions, final_answer |-> fa, continue |-> cont]

\* normalizeResponse, per action: type is forced to 'tool_call'; a type that
\* is something else is taken as the tool name when tool is missing.
normalizeAction(a) ==
  IF a.type # "tool_call"
    THEN [type |-> "tool_call",
          tool |-> IF a.type # "" /\ a.tool = "" THEN a.type ELSE a.tool]
    ELSE a

hasPendingTools(actions) ==
  \E k \in 1..Len(actions) : actions[k].type = "tool_call" /\ actions[k].tool # ""

normalizeResponse(parsed) ==
  IF parsed.kind = "envelope"
    THEN LET acts == [k \in 1..Len(parsed.actions) |-> normalizeAction(parsed.actions[k])]
         IN [parsed EXCEPT
               !.actions = acts,
               !.continue = IF hasPendingTools(acts) /\ parsed.final_answer = ""
                                 /\ ~parsed.continue
                              THEN TRUE ELSE @]
    ELSE IF parsed.kind = "array"
      THEN Envelope([k \in 1..Len(parsed.items) |->
                       [type |-> "tool_call", tool |-> parsed.items[k].tool]],
                    "", TRUE)
    ELSE IF parsed.kind = "flat"
      THEN Envelope(<< [type |-> "tool_call", tool |-> parsed.tool] >>, "", TRUE)
    ELSE parsed

\* extractFirstJson: null when no strategy finds JSON, else the normalised value.
extractFirstJson(raw) == normalizeResponse(raw)

hasCanonicalFields(parsed) == parsed.kind = "envelope"

hasToolCalls(parsed) ==
  \E k \in 1..Len(parsed.actions) : parsed.actions[k].type = "tool_call"

hasFinalAnswer(parsed) == trim(parsed.final_answer) # ""

\* continueLoop = parsedJson.continue === true || (hasToolCalls && !hasFinalAnswer)
continueDecision(parsed) ==
  parsed.continue = TRUE \/ (hasToolCalls(parsed) /\ ~hasFinalAnswer(parsed))

StepLimitQuestion(n) ==
  "I've hit my step limit (" \o ToString(n) \o " steps) and there's still work to do. Would you like me to continue?"

\* JSON.stringify({ original_prompt, tool_results, last_response })
NextPrompt(prompt, results, last) ==
  [form |-> "json", original_prompt |-> prompt, tool_results |-> results,
   last_response |-> last]

TextPrompt(prompt) ==
  [form |-> "text", original_prompt |-> prompt, tool_results |-> <<>>,
   last_response |-> NoResponse]

\* Array.prototype.slice(start): a negative start counts from the end.
slice(seq, start) ==
  LET from == IF start < 0
                THEN (IF Len(seq) + start < 0 THEN 0 ELSE Len(seq) + start)
                ELSE start
  IN IF from >= Len(seq) THEN <<>> ELSE SubSeq(seq, from + 1, Len(seq))

iterationToolCount(parsed) ==
  Cardinality({k \in 1..Len(parsed.actions) : parsed.actions[k].type = "tool_call"})

anyFailed(results) == \E k \in 1..Len(results) : resultFailed(results[k].result)

\* ---------------------------------------------------------------- state
VARIABLES
  pc,                   \* per chain: the await runPrompt is suspended at
  channelId,            \* per chain
  prompt,               \* per chain: the prompt argument
  userPrompt,           \* per chain: what the next LLM turn is sent
  toolResults,          \* per chain
  loopCount,            \* per chain
  loopLimit,            \* per chain
  continueLoop,         \* per chain
  lastResponse,         \* per chain
  parsedJson,           \* per chain: the response of the turn being executed
  actionIndex,          \* per chain: i of the action loop (1-based)
  result,               \* per chain: what the completion callback received
  parseKind,            \* per chain: what extractFirstJson made of the last buffer
  pendingAtStart,       \* per chain: was a continuation pending for its channel
                        \* when runPrompt was entered (history)
  abortedChannels,      \* Set of channel ids with a pending stop request
  pendingContinuations, \* Map channelId -> saved continuation
  configLoopLimit,      \* global.SkippyConfig.prompt.loop_limit
  abortSeen,            \* per chain: where the chain was when a stop request
                        \* for its channel arrived (history, not program state)
  caller,               \* per chain: who entered runPrompt (history)
  llmTurns              \* per chain: the promptOllama calls its loop has made
                        \* (history)

promptVars == << pc, channelId, prompt, userPrompt, toolResults, loopCount, loopLimit,
           continueLoop, lastResponse, parsedJson, actionIndex, result,
           parseKind, pendingAtStart,
           abortedChannels, pendingContinuations, configLoopLimit, abortSeen,
           caller, llmTurns >>

NoContinuation == [saved |-> FALSE]
NoResult == [kind |-> "none"]
NoAbort == [requested |-> FALSE, duringTool |-> FALSE, loopCount |-> 0]

InFlight(c) == pc[c] \notin {"idle", "done"}

hasDiscordMessage(ch) == ch # CliChannel

\* The state one step of chain c works on: its locals and the two globals.
World(c) ==
  [self |-> c, pc |-> pc[c], channelId |-> channelId[c], prompt |-> prompt[c],
   userPrompt |-> userPrompt[c], toolResults |-> toolResults[c],
   loopCount |-> loopCount[c], loopLimit |-> loopLimit[c],
   continueLoop |-> continueLoop[c], lastResponse |-> lastResponse[c],
   parsedJson |-> parsedJson[c], actionIndex |-> actionIndex[c],
   result |-> result[c], parseKind |-> parseKind[c], llmTurns |-> llmTurns[c],
   abortedChannels |-> abortedChannels,
   pendingContinuations |-> pendingContinuations]

Commit(c, w) ==
  /\ pc' = [pc EXCEPT ![c] = w.pc]
  /\ channelId' = [channelId EXCEPT ![c] = w.channelId]
  /\ prompt' = [prompt EXCEPT ![c] = w.prompt]
  /\ userPrompt' = [userPrompt EXCEPT ![c] = w.userPrompt]
  /\ toolResults' = [toolResults EXCEPT ![c] = w.toolResults]
  /\ loopCount' = [loopCount EXCEPT ![c] = w.loopCount]
  /\ loopLimit' = [loopLimit EXCEPT ![c] = w.loopLimit]
  /\ continueLoop' = [continueLoop EXCEPT ![c] = w.continueLoop]
  /\ lastResponse' = [lastResponse EXCEPT ![c] = w.lastResponse]
  /\ parsedJson' = [parsedJson EXCEPT ![c] = w.parsedJson]
  /\ actionIndex' = [actionIndex EXCEPT ![c] = w.actionIndex]
  /\ result' = [result EXCEPT ![c] = w.result]
  /\ parseKind' = [parseKind EXCEPT ![c] = w.parseKind]
  /\ llmTurns' = [llmTurns EXCEPT ![c] = w.llmTurns]
  /\ abortedChannels' = w.abortedChannels
  /\ pendingContinuations' = w.pendingContinuations

isAbortRequested(w) == w.channelId \in w.abortedChannels

clearAbort(w) == [w EXCEPT !.abortedChannels = @ \ {w.channelId}]

callback(w, data) == [w EXCEPT !.result = data, !.pc = "done"]

\* callback({ aborted: true, tool_results, last_response, loop_count }).
\* The status updates awaited on the way out of runPrompt ('stopped', 'error',
\* 'complete') and the ones after which the abort flag is polled again
\* ('Step n', reasoning) are folded into the step: nothing the chain has read
\* is used after them.
abortExit(w) ==
  callback(w, [kind |-> "aborted", aborted |-> TRUE, tool_results |-> w.toolResults,
               last_response |-> w.lastResponse, loop_count |-> w.loopCount])

\* After the loop: the empty-answer fallback, or the final callback.
finalize(w) ==
  IF w.lastResponse.kind # "none" /\ trim(w.lastResponse.final_answer) = ""
    THEN [w EXCEPT !.pc = "fallback"]
    ELSE callback(w, [kind |-> "success", success |-> TRUE,
                      tool_results |-> w.toolResults,
                      last_response |-> w.lastResponse, loop_count |-> w.loopCount])

\* Top of an iteration: loopCount++, the abort poll, then the LLM call.
loopTop(w) ==
  LET w1 == [w EXCEPT !.loopCount = @ + 1]
  IN IF isAbortRequested(w1) THEN abortExit(w1) ELSE [w1 EXCEPT !.pc = "llm", !.llmTurns = @ + 1]

\* The while test without its bound.
whileTest_noLimit(w) ==
  IF w.continueLoop THEN loopTop(w) ELSE finalize(w)

\* while (continueLoop && loopCount < loopLimit)
whileTest(w) ==
  IF w.continueLoop /\ w.loopCount < w.loopLimit THEN loopTop(w) ELSE finalize(w)

\* The loop-limit exit: save the continuation, answer with the question.
limitExit(w) ==
  LET question == StepLimitQuestion(w.loopLimit)
      saved == [saved |-> TRUE, toolResults |-> w.toolResults,
                resumePrompt |-> NextPrompt(w.prompt, w.toolResults, w.lastResponse),
                originalPrompt |-> w.prompt, loopCount |-> w.loopCount]
      w1 == [w EXCEPT !.pendingContinuations[w.channelId] = saved]
  IN callback(w1, [kind |-> "limit", max_iterations_reached |-> TRUE,
                   continuation_pending |-> TRUE, tool_results |-> w.toolResults,
                   last_response |->
                     IF w.lastResponse.kind = "none"
                       THEN [kind |-> "none", final_answer |-> question]
                       ELSE [w.lastResponse EXCEPT !.final_answer = question],
                   loop_count |-> w.loopCount])

\* After the actions of a turn: forced continuation on a failed tool, the
\* next prompt, the loop-limit check, then the while test.
turnEnd(w) ==
  LET count == iterationToolCount(w.parsedJson)
      iterationResults == slice(w.toolResults, Len(w.toolResults) - count)
      forced == count > 0 /\ ~w.continueLoop /\ anyFailed(iterationResults)
      w1 == [w EXCEPT !.continueLoop = IF forced THEN TRUE ELSE @]
      w2 == IF w1.continueLoop /\ w1.loopCount < w1.loopLimit
              THEN [w1 EXCEPT !.userPrompt =
                      NextPrompt(w1.prompt, w1.toolResults, w1.lastResponse)]
              ELSE w1
  IN IF w2.loopCount >= w2.loopLimit /\ w2.continueLoop
       THEN limitExit(w2)
       ELSE whileTest(w2)

\* for (i ...) over parsedJson.actions, up to the next await: the abort poll
\* before each action, then either the status bubble or the tool call itself.
RECURSIVE actionLoop(_)
actionLoop(w) ==
  IF w.actionIndex > Len(w.parsedJson.actions)
    THEN turnEnd(w)
    ELSE IF isAbortRequested(w)
      THEN abortExit(w)
      ELSE LET action == w.parsedJson.actions[w.actionIndex]
           IN IF action.type = "tool_call" /\ action.tool # ""
                THEN [w EXCEPT !.pc = IF hasDiscordMessage(w.channelId)
                                        THEN "tool_status" ELSE "tool"]
                ELSE actionLoop([w EXCEPT !.actionIndex = @ + 1])

SystemFormatError(w) ==
  [tool |-> "_system", result |-> NoValue, chain |-> w.self,
   iter |-> w.loopCount, idx |-> 0]

\* afterLlm with a response that holds no JSON retried like a fragment.
afterLlm_retry(w, raw) ==
  IF isAbortRequested(w)
    THEN abortExit(w)
    ELSE LET parsed == extractFirstJson(raw)
         IN IF ~hasCanonicalFields(parsed)
              THEN LET results == Append(w.toolResults, SystemFormatError(w))
                   IN whileTest([w EXCEPT
                        !.parseKind = parsed.kind,
                        !.toolResults = results,
                        !.userPrompt = NextPrompt(w.prompt, results, NoResponse)])
              ELSE actionLoop([w EXCEPT
                     !.parseKind = "envelope",
                     !.parsedJson = parsed,
                     !.lastResponse = parsed,
                     !.continueLoop = continueDecision(parsed),
                     !.actionIndex = 1])

\* afterLlm with the format-retry branch forgetting its toolResults.push.
afterLlm_noPush(w, raw) ==
  IF isAbortRequested(w)
    THEN abortExit(w)
    ELSE LET parsed == extractFirstJson(raw)
         IN IF parsed.kind = "none"
              THEN callback([w EXCEPT !.parseKind = "none"],
                            [kind |-> "error",
                             error |-> "Invalid JSON response from AI",
                             debug_info |-> [loop_count |-> w.loopCount]])
              ELSE IF ~hasCanonicalFields(parsed)
                THEN whileTest([w EXCEPT
                          !.parseKind = "fragment",
                          !.userPrompt = NextPrompt(w.prompt, w.toolResults, NoResponse)])
                ELSE actionLoop([w EXCEPT
                       !.parseKind = "envelope",
                       !.parsedJson = parsed,
                       !.lastResponse = parsed,
                       !.continueLoop = continueDecision(parsed),
                       !.actionIndex = 1])

\* From the return of promptOllama to the next await.
afterLlm(w, raw) ==
  IF isAbortRequested(w)
    THEN abortExit(w)
    ELSE LET parsed == extractFirstJson(raw)
         IN IF parsed.kind = "none"
              THEN callback([w EXCEPT !.parseKind = "none"],
                            [kind |-> "error",
                             error |-> "Invalid JSON response from AI",
                             debug_info |-> [loop_count |-> w.loopCount]])
              ELSE IF ~hasCanonicalFields(parsed)
                THEN LET results == Append(w.toolResults, SystemFormatError(w))
                     IN whileTest([w EXCEPT
                          !.parseKind = "fragment",
                          !.toolResults = results,
                          !.userPrompt = NextPrompt(w.prompt, results, NoResponse)])
                ELSE actionLoop([w EXCEPT
                       !.parseKind = "envelope",
                       !.parsedJson = parsed,
                       !.lastResponse = parsed,
                       !.continueLoop = continueDecision(parsed),
                       !.actionIndex = 1])

\* toolFinished with the result put in front (unshift for push).
toolFinished_unshift(w, res) ==
  LET action == w.parsedJson.actions[w.actionIndex]
      entry == [tool |-> action.tool, result |-> res, chain |-> w.self,
                iter |-> w.loopCount, idx |-> w.actionIndex]
  IN actionLoop([w EXCEPT !.toolResults = <<entry>> \o @,
                          !.actionIndex = @ + 1])

\* toolResults.push({ tool, arguments, result }), then on with the actions.
toolFinished(w, res) ==
  LET action == w.parsedJson.actions[w.actionIndex]
      entry == [tool |-> action.tool, result |-> res, chain |-> w.self,
                iter |-> w.loopCount, idx |-> w.actionIndex]
  IN actionLoop([w EXCEPT !.toolResults = Append(@, entry),
                          !.actionIndex = @ + 1])

\* runPrompt from the context awaits to the first await of the loop:
\* clearAbort, the pending continuation, loopLimit.
setup(w, limit) ==
  LET pending == w.pendingContinuations[w.channelId]
      resume == pending.saved /\ isAffirmativeResponse(w.prompt)
      w1 == clearAbort(w)
      w2 == [w1 EXCEPT
               !.userPrompt = IF resume THEN pending.resumePrompt
                              ELSE TextPrompt(w.prompt),
               !.toolResults = IF resume THEN pending.toolResults ELSE <<>>,
               !.pendingContinuations[w.channelId] = NoContinuation,
               !.lastResponse = NoResponse,
               !.continueLoop = TRUE,
               !.loopLimit = limit,
               !.loopCount = 0]
  IN IF hasDiscordMessage(w.channelId)
       THEN [w2 EXCEPT !.pc = "init_status"]
       ELSE whileTest(w2)

\* ---------------------------------------------------------------- LLM client state
VARIABLES
  clientPc,       \* promptOllama: "idle", "attempt", "sleep", "resolved", "rejected"
  clientAttempt,  \* attempt of the for loop
  clientMax,      \* cfg.max_retries ?? DEFAULT_MAX_RETRIES
  clientWaited,   \* history: the sleeps so far, [err, ms]
  clientError     \* the error promptOllama rejected with

clientVars == << clientPc, clientAttempt, clientMax, clientWaited, clientError >>

\* ---------------------------------------------------------------- channel memory state
VARIABLES
  channelTables,  \* the database: table name -> key -> row
  sqliteMaster,   \* the channel tables that exist
  globalMemories, \* the table global_memories: key -> row
  memoryOwner,    \* per row: the channel whose setChannel wrote it (history)
  lastSet,        \* per scope and key: the value last set and not deleted
                  \* since (history)
  memoryResult    \* the last call of the memory tool and what it returned

memoryVars == << channelTables, sqliteMaster, globalMemories, memoryOwner,
                 lastSet, memoryResult >>

\* ---------------------------------------------------------------- skill state
VARIABLES
  skills,       \* the table skills: name -> row
  skillResult   \* the last skill call of the memory tool and what it returned

skillVars == << skills, skillResult >>

\* ---------------------------------------------------------------- out-of-band block state
VARIABLES
  rawBuffer,    \* the model response of the turn, as a sequence of tokens
  fileActions,  \* parsedJson.actions of the turn
  fileBlocks,   \* extractFileBlocks(...).fileBlocks
  patchBlocks,  \* extractFileBlocks(...).patchBlocks
  fileIndex,    \* the action the for loop is at
  fileCalls,    \* what the tools were invoked with, in order
  fileSent      \* the payload the response carries in its first block (history)

fileVars == << rawBuffer, fileActions, fileBlocks, patchBlocks, fileIndex,
               fileCalls, fileSent >>

\* ---------------------------------------------------------------- chat gateway state
VARIABLES
  gwPc,            \* where the messageCreate handler and its chain are
  gwMessage,       \* the inbound message the handler last received
  gwStarted,       \* whether that message reached runPrompt (history)
  statusMessages,  \* runPrompt's statusMessages: the bubbles recorded, in order
  gwAnswer,        \* the answer the done callback computed
  gwOutbox,        \* chunks handed to channel.send whose promise is pending
  gwDelivered,     \* chunks whose send has resolved
  gwToDelete,      \* what deleteStatusMessages still has to visit
  gwDeleted,       \* bubbles whose msg.delete() resolved
  gwEarly          \* a msg.delete() was issued while a send was pending (history)

gatewayVars == << gwPc, gwMessage, gwStarted, statusMessages, gwAnswer, gwOutbox,
                  gwDelivered, gwToDelete, gwDeleted, gwEarly >>

\* ---------------------------------------------------------------- startup state
VARIABLES
  bootPc,            \* the statement the startup function is at
  toolIndex,         \* the tool getCompiledToolsContext's for loop is at
  bootLog,           \* the components, in the order they became active
  bootTicks,         \* how many times the scheduler's interval has fired
  tickedAt,          \* the startup positions at which a tick fired (history)
  promptedAt         \* the startup positions at which a prompt came in (history)

bootVars == << bootPc, toolIndex, bootLog, bootTicks, tickedAt, promptedAt >>

\* ---------------------------------------------------------------- parser state
VARIABLES
  parseRaw,   \* the text handed to extractFirstJson
  parseOut    \* what extractFirstJson returned for it

parserVars == << parseRaw, parseOut >>

\* ---------------------------------------------------------------- streaming state
VARIABLES
  streamPc,        \* where the promptOllama call is
  streamMode,      \* who called: a turn of runPrompt, or emptyPromptResponseMessage
  streamAttempt,   \* promptOllama's attempt
  streamChunks,    \* the parts the attempt under way has streamed
  streamBuffer,    \* the caller's accumulator: buffer, or summarized
  fallbackTimer,   \* emptyPromptResponseMessage's 3-minute timer
  callbackFired,   \* emptyPromptResponseMessage's flag
  streamCallbacks  \* what runPrompt's caller has been called back with, in order

streamVars == << streamPc, streamMode, streamAttempt, streamChunks, streamBuffer,
                 fallbackTimer, callbackFired, streamCallbacks >>

\* ---------------------------------------------------------------- the cron scheduler
\* Time is counted in half minutes since CronJobsTool.init; the scheduler's
\* interval of 60 s is IntervalMs / HalfMinuteMs = 2 of them.
IntervalMs == 60000
HalfMinuteMs == 30000
Interval == IntervalMs \div HalfMinuteMs
\* A calendar minute is as long as the interval.
MinuteLen == Interval
Never == 0 - 1

VARIABLES
  cronJobs,    \* the cron_jobs table: id -> row
  cronClock,   \* when the interval timer fired last
  cronTicks,   \* the _tick invocations so far: [now, rows, i, pc]
  cronFired,   \* history: the _fireJob calls so far, [job, type, time, minute, now, tick]
  cronZone     \* [phase, tz]: where the minutes fall, and local time minus UTC

cronVars == << cronJobs, cronClock, cronTicks, cronFired, cronZone >>


JobIds == {"j1", "j2"}
OneTimeAt == 3
ScheduleMinute == 2

NoJob == [present |-> FALSE]

OneTimeJob(action) ==
  [present |-> TRUE, type |-> "one_time", action |-> action, time |-> OneTimeAt,
   minute |-> Never, intervalMs |-> Never, lastFired |-> Never]

\* days=[1], hour=9, minute=0: the calendar minute ScheduleMinute.
ScheduleJob(action) ==
  [present |-> TRUE, type |-> "schedule", action |-> action, time |-> Never,
   minute |-> ScheduleMinute, intervalMs |-> Never, lastFired |-> Never]

\* A schedule stored without a days list: _add asks only that the schedule
\* field is there.
NoDays == 0 - 2

MalformedJob(action) ==
  [present |-> TRUE, type |-> "schedule", action |-> action, time |-> Never,
   minute |-> NoDays, intervalMs |-> Never, lastFired |-> Never]

minuteOf(t) == (t + cronZone.phase) \div MinuteLen

\* new Date(date).setSeconds(0, 0)
minuteStart(t) == t - ((t + cronZone.phase) % MinuteLen)

\* date.getDay(), date.getHours(), date.getMinutes(): local time.
localMinute(t) == minuteOf(t) + cronZone.tz

\* s.days.includes(...) on a schedule without days raises a TypeError.
shouldFireThrows(job) == job.type = "schedule" /\ job.minute = NoDays

_shouldFire(job, date) ==
  CASE job.type = "one_time" -> job.time <= date
    [] job.type = "interval" ->
         job.lastFired = Never \/ date - job.lastFired >= job.intervalMs
    [] job.type = "schedule" ->
         LET sameMinute == job.lastFired # Never /\ job.lastFired >= minuteStart(date)
         IN localMinute(date) = job.minute /\ ~sameMinute
    [] OTHER -> FALSE

\* DELETE FROM cron_jobs / UPDATE cron_jobs SET last_fired, for the job fired at now.
recordFire(jobs, id, job, now) ==
  IF ~jobs[id].present THEN jobs
  ELSE IF job.type = "one_time" THEN [jobs EXCEPT ![id] = NoJob]
  ELSE [jobs EXCEPT ![id].lastFired = now]

\* The ids in the order SELECT returns the rows.
RECURSIVE idsInOrder(_)
idsInOrder(ids) ==
  IF ids = {} THEN <<>>
  ELSE LET first == CHOOSE x \in ids : \A y \in ids : x = y \/ x = "j1"
       IN <<first>> \o idsInOrder(ids \ {first})

\* for (const row of jobs), from row i of tick t up to the next await that
\* lets other work in: awaiting runPrompt for a prompt job. A bash job is
\* started with exec and not awaited. Statements on the database are folded
\* into the step that issues them. An error raised inside the loop is caught
\* outside it, which ends the tick.
RECURSIVE tickLoop(_, _)
tickLoop(st, t) ==
  LET tick == st.ticks[t]
  IN IF tick.i > Len(tick.rows)
       THEN [st EXCEPT !.ticks[t].pc = "end"]
       ELSE LET row == tick.rows[tick.i]
                job == row.job
            IN IF shouldFireThrows(job)
                 THEN [st EXCEPT !.ticks[t].pc = "error"]
               ELSE IF _shouldFire(job, tick.now)
                 THEN LET st1 == [st EXCEPT !.fired =
                                    Append(@, [job |-> row.id, type |-> job.type, time |-> job.time,
                                               minute |-> job.minute, now |-> tick.now, tick |-> t])]
                      IN IF job.action = "prompt"
                           THEN [st1 EXCEPT !.ticks[t].pc = "fire"]
                           ELSE tickLoop([st1 EXCEPT
                                  !.jobs = recordFire(@, row.id, job, tick.now),
                                  !.ticks[t].i = @ + 1], t)
                 ELSE tickLoop([st EXCEPT !.ticks[t].i = @ + 1], t)

CronWorld == [jobs |-> cronJobs, ticks |-> cronTicks, fired |-> cronFired]

CronCommit(st) ==
  /\ cronJobs' = st.jobs
  /\ cronTicks' = st.ticks
  /\ cronFired' = st.fired

\* The interval timer fires, late ms/30000 half minutes after it was due:
\* _tick reads the enabled jobs and the time, and walks the rows.
CronTick(late) ==
  /\ Len(cronTicks) < MaxTicks
  /\ LET now == cronClock + Interval + late
         rows == LET ids == idsInOrder({id \in JobIds : cronJobs[id].present})
                 IN [k \in 1..Len(ids) |-> [id |-> ids[k], job |-> cronJobs[ids[k]]]]
         t == Len(cronTicks) + 1
         st == [CronWorld EXCEPT !.ticks =
                  Append(@, [now |-> now, rows |-> rows, i |-> 1, pc |-> "loop"])]
     IN /\ cronClock' = now
        /\ CronCommit(tickLoop(st, t))
  /\ UNCHANGED << cronZone, promptVars, clientVars, memoryVars, skillVars, fileVars, gatewayVars, bootVars, parserVars, streamVars >>

\* The runPrompt that tick t awaits in _fireJob has settled.
CronPromptDone(t) ==
  /\ t \in 1..Len(cronTicks)
  /\ cronTicks[t].pc = "fire"
  /\ LET tick == cronTicks[t]
         row == tick.rows[tick.i]
         st == [CronWorld EXCEPT
                  !.jobs = recordFire(@, row.id, row.job, tick.now),
                  !.ticks[t].i = @ + 1]
     IN CronCommit(tickLoop(st, t))
  /\ UNCHANGED << cronClock, cronZone, promptVars, clientVars, memoryVars, skillVars, fileVars, gatewayVars, bootVars, parserVars, streamVars >>

\* No job is scheduled.
CronIdle ==
  /\ cronJobs = [id \in JobIds |-> NoJob]
  /\ cronClock = 0
  /\ cronTicks = <<>>
  /\ cronFired = <<>>
  /\ cronZone = [phase |-> 0, tz |-> 0]

\* ---------------------------------------------------------------- the LLM client
vars == << promptVars, cronVars, clientVars, memoryVars, skillVars, fileVars, gatewayVars, bootVars, parserVars, streamVars >>

\* An error of attemptPrompt: the HTTP status and the network code it
\* carries (0 and "" when it has none), and the seconds of a "Retry-After: N"
\* in its message (Never when there is none to parse).
ClientErr(status, code, retryAfter) ==
  [status_code |-> status, code |-> code, retryAfter |-> retryAfter]

NoError == ClientErr(0, "", Never)
Unauthorized == ClientErr(401, "", Never)
ServerError == ClientErr(500, "", Never)
RateLimited == ClientErr(429, "", Never)
RateLimitedRetryAfter == ClientErr(429, "", 5)
Unavailable == ClientErr(503, "", Never)
ConnectionReset == ClientErr(0, "ECONNRESET", Never)
\* new Error(`Request aborted due to timeout ...`)
TimedOut == ClientErr(0, "", Never)

NetworkCodes == {"ECONNRESET", "ETIMEDOUT", "ENOTFOUND", "ECONNREFUSED"}

isRetryable_any(err) == TRUE

isRetryable(err) ==
  \/ err.status_code \in {429, 503, 502, 504}
  \/ err.code \in NetworkCodes

RECURSIVE pow2(_)
pow2(n) == IF n = 0 THEN 1 ELSE 2 * pow2(n - 1)

min(a, b) == IF a <= b THEN a ELSE b

retryDelayMs(err, attempt) ==
  IF err.retryAfter # Never THEN err.retryAfter * 1000
  ELSE min(1000 * pow2(attempt - 1), 30000)

\* promptOllama is called: the first pass of the for loop, or none at all.
ClientCall ==
  /\ clientPc = "idle"
  /\ IF 1 <= clientMax
       THEN clientPc' = "attempt" /\ clientAttempt' = 1
       ELSE clientPc' = "resolved" /\ clientAttempt' = 0
  /\ UNCHANGED << clientMax, clientWaited, clientError, promptVars, cronVars, memoryVars, skillVars, fileVars, gatewayVars, bootVars, parserVars, streamVars >>

\* attemptPrompt returned the response.
ClientSuccess ==
  /\ clientPc = "attempt"
  /\ clientPc' = "resolved"
  /\ UNCHANGED << clientAttempt, clientMax, clientWaited, clientError,
                  promptVars, cronVars, memoryVars, skillVars, fileVars, gatewayVars, bootVars, parserVars, streamVars >>

\* attemptPrompt threw err: give up, or sleep before the next attempt.
ClientFail(err) ==
  /\ clientPc = "attempt"
  /\ LET retryable == isRetryable(err)
         isLast == clientAttempt >= clientMax
     IN IF ~retryable \/ isLast
          THEN /\ clientPc' = "rejected"
               /\ clientError' = err
               /\ UNCHANGED clientWaited
          ELSE /\ clientPc' = "sleep"
               /\ clientWaited' = Append(clientWaited,
                    [err |-> err, ms |-> retryDelayMs(err, clientAttempt)])
               /\ UNCHANGED clientError
  /\ UNCHANGED << clientAttempt, clientMax, promptVars, cronVars, memoryVars, skillVars, fileVars, gatewayVars, bootVars, parserVars, streamVars >>

\* The sleep is over: attempt++.
ClientWake ==
  /\ clientPc = "sleep"
  /\ clientPc' = "attempt"
  /\ clientAttempt' = clientAttempt + 1
  /\ UNCHANGED << clientMax, clientWaited, clientError, promptVars, cronVars, memoryVars, skillVars, fileVars, gatewayVars, bootVars, parserVars, streamVars >>

\* No request is under way.
ClientIdle ==
  /\ clientPc = "idle"
  /\ clientAttempt = 0
  /\ clientMax = 3
  /\ clientWaited = <<>>
  /\ clientError = NoError

\* ---------------------------------------------------------------- channel memory
\* Names and values are sequences of characters.
MegaFurnace == << "m", "-", "f" >>
Megafurnace == << "m", "f" >>
Shop == << "s" >>
ChannelNames == {MegaFurnace, Megafurnace, Shop}

WordChars == {"m", "f", "s", "_"}

\* name.replace(/[^a-zA-Z0-9_]/g, '')
_sanitizeChannelName(name) == SelectSeq(name, LAMBDA ch : ch \in WordChars)

tableOf(channelName) ==
  << "channel_memories_" >> \o _sanitizeChannelName(channelName)

TableNames == {tableOf(n) : n \in ChannelNames}

\* CREATE TABLE IF NOT EXISTS
ensureChannelTable(master, channelName) == master \cup {tableOf(channelName)}

GlobalScope == << "global" >>
Scopes == ChannelNames \cup {GlobalScope}

MemoryKeys == {"k1", "k2"}
MemoryValues == {<< "v", "1" >>, << "v", "2" >>}
Categories == {"general", "notes"}

Quote == "dquote"

\* JSON.stringify of a string value
_jsonStringify(value) == << Quote >> \o value \o << Quote >>

\* JSON.parse, and the raw text when that fails
_jsonParse(str) ==
  IF Len(str) >= 2 /\ str[1] = Quote /\ str[Len(str)] = Quote
    THEN SubSeq(str, 2, Len(str) - 1)
    ELSE str

NoRow == [present |-> FALSE]
NoOwner == << >>
NotSet == << >>

Row(value, category) ==
  [present |-> TRUE, value |-> _jsonStringify(value), category |-> category]

_formatRow(key, row) ==
  [key |-> key, value |-> _jsonParse(row.value), category |-> row.category]

NoKey == ""

MemoryCall(op, channelName, key, rows, owners) ==
  [op |-> op, channel |-> channelName, key |-> key, rows |-> rows, owners |-> owners]

NoCall == MemoryCall("none", << >>, NoKey, {}, {})

\* INSERT ... ON CONFLICT(key) DO UPDATE
setChannel(channelName, key, value, category) ==
  LET table == tableOf(channelName)
  IN /\ sqliteMaster' = ensureChannelTable(sqliteMaster, channelName)
     /\ channelTables' = [channelTables EXCEPT ![table][key] = Row(value, category)]
     /\ memoryOwner' = [memoryOwner EXCEPT ![table][key] = channelName]
     /\ lastSet' = [lastSet EXCEPT ![channelName][key] = value]
     /\ memoryResult' = MemoryCall("setChannel", channelName, key, {}, {})
     /\ UNCHANGED << globalMemories, promptVars, cronVars, clientVars, skillVars, fileVars, gatewayVars, bootVars, parserVars, streamVars >>

\* SELECT * FROM table WHERE key = ?
getChannel(channelName, key) ==
  LET table == tableOf(channelName)
      found == IF channelTables[table][key].present THEN {key} ELSE {}
  IN /\ sqliteMaster' = ensureChannelTable(sqliteMaster, channelName)
     /\ memoryResult' = MemoryCall("getChannel", channelName, key,
                          {_formatRow(k, channelTables[table][k]) : k \in found},
                          {memoryOwner[table][k] : k \in found})
     /\ UNCHANGED << channelTables, globalMemories, memoryOwner, lastSet,
                     promptVars, cronVars, clientVars, skillVars, fileVars, gatewayVars, bootVars, parserVars, streamVars >>

\* DELETE FROM table WHERE key = ?
deleteChannel(channelName, key) ==
  LET table == tableOf(channelName)
  IN /\ sqliteMaster' = ensureChannelTable(sqliteMaster, channelName)
     /\ channelTables' = [channelTables EXCEPT ![table][key] = NoRow]
     /\ memoryOwner' = [memoryOwner EXCEPT ![table][key] = NoOwner]
     /\ lastSet' = [lastSet EXCEPT ![channelName][key] = NotSet]
     /\ memoryResult' = MemoryCall("deleteChannel", channelName, key, {}, {})
     /\ UNCHANGED << globalMemories, promptVars, cronVars, clientVars, skillVars, fileVars, gatewayVars, bootVars, parserVars, streamVars >>

\* SELECT * FROM table WHERE category = ?
getChannelByCategory(channelName, category) ==
  LET table == tableOf(channelName)
      found == {k \in MemoryKeys : /\ channelTables[table][k].present
                                   /\ channelTables[table][k].category = category}
  IN /\ sqliteMaster' = ensureChannelTable(sqliteMaster, channelName)
     /\ memoryResult' = MemoryCall("getChannelByCategory", channelName, NoKey,
                          {_formatRow(k, channelTables[table][k]) : k \in found},
                          {memoryOwner[table][k] : k \in found})
     /\ UNCHANGED << channelTables, globalMemories, memoryOwner, lastSet,
                     promptVars, cronVars, clientVars, skillVars, fileVars, gatewayVars, bootVars, parserVars, streamVars >>

\* SELECT key FROM table
listChannelKeys(channelName) ==
  LET table == tableOf(channelName)
      found == {k \in MemoryKeys : channelTables[table][k].present}
  IN /\ sqliteMaster' = ensureChannelTable(sqliteMaster, channelName)
     /\ memoryResult' = MemoryCall("listChannelKeys", channelName, NoKey,
                          {[key |-> k] : k \in found},
                          {memoryOwner[table][k] : k \in found})
     /\ UNCHANGED << channelTables, globalMemories, memoryOwner, lastSet,
                     promptVars, cronVars, clientVars, skillVars, fileVars, gatewayVars, bootVars, parserVars, streamVars >>

\* DROP TABLE, when the table exists
purgeChannel(channelName) ==
  LET table == tableOf(channelName)
      exists == table \in sqliteMaster
  IN /\ sqliteMaster' = sqliteMaster \ {table}
     /\ channelTables' = [channelTables EXCEPT ![table] = [k \in MemoryKeys |-> NoRow]]
     /\ memoryOwner' = [memoryOwner EXCEPT ![table] = [k \in MemoryKeys |-> NoOwner]]
     /\ lastSet' = [lastSet EXCEPT ![channelName] = [k \in MemoryKeys |-> NotSet]]
     /\ memoryResult' = MemoryCall(IF exists THEN "purgeChannel" ELSE "purgeChannel failed",
                                   channelName, NoKey, {}, {})
     /\ UNCHANGED << globalMemories, promptVars, cronVars, clientVars, skillVars, fileVars, gatewayVars, bootVars, parserVars, streamVars >>

\* SELECT name FROM sqlite_master WHERE name LIKE 'channel_memories_%'
channelsOf(master) == {Tail(t) : t \in master}

listChannels ==
  /\ memoryResult' = MemoryCall("listChannels", << >>, NoKey,
                       {[channel |-> n] : n \in channelsOf(sqliteMaster)}, {})
  /\ UNCHANGED << channelTables, sqliteMaster, globalMemories, memoryOwner, lastSet,
                  promptVars, cronVars, clientVars, skillVars, fileVars, gatewayVars, bootVars, parserVars, streamVars >>

setGlobal(key, value, category) ==
  /\ globalMemories' = [globalMemories EXCEPT ![key] = Row(value, category)]
  /\ lastSet' = [lastSet EXCEPT ![GlobalScope][key] = value]
  /\ memoryResult' = MemoryCall("setGlobal", GlobalScope, key, {}, {})
  /\ UNCHANGED << channelTables, sqliteMaster, memoryOwner,
                  promptVars, cronVars, clientVars, skillVars, fileVars, gatewayVars, bootVars, parserVars, streamVars >>

getGlobal(key) ==
  /\ memoryResult' = MemoryCall("getGlobal", GlobalScope, key,
                       IF globalMemories[key].present
                         THEN {_formatRow(key, globalMemories[key])} ELSE {},
                       {})
  /\ UNCHANGED << channelTables, sqliteMaster, globalMemories, memoryOwner, lastSet,
                  promptVars, cronVars, clientVars, skillVars, fileVars, gatewayVars, bootVars, parserVars, streamVars >>

deleteGlobal(key) ==
  /\ globalMemories' = [globalMemories EXCEPT ![key] = NoRow]
  /\ lastSet' = [lastSet EXCEPT ![GlobalScope][key] = NotSet]
  /\ memoryResult' = MemoryCall("deleteGlobal", GlobalScope, key, {}, {})
  /\ UNCHANGED << channelTables, sqliteMaster, memoryOwner,
                  promptVars, cronVars, clientVars, skillVars, fileVars, gatewayVars, bootVars, parserVars, streamVars >>

\* An empty database.
MemoryIdle ==
  /\ channelTables = [t \in TableNames |-> [k \in MemoryKeys |-> NoRow]]
  /\ sqliteMaster = {}
  /\ globalMemories = [k \in MemoryKeys |-> NoRow]
  /\ memoryOwner = [t \in TableNames |-> [k \in MemoryKeys |-> NoOwner]]
  /\ lastSet = [sc \in Scopes |-> [k \in MemoryKeys |-> NotSet]]
  /\ memoryResult = NoCall

\* ---------------------------------------------------------------- skills
\* JSON values; an object is a function from its keys to values.
JNull == [t |-> "null"]
JNum(n) == [t |-> "num", n |-> n]
JStr(str) == [t |-> "str", s |-> str]
JArr(items) == [t |-> "arr", a |-> items]
JObj(fields) == [t |-> "obj", f |-> fields]

EmptyObj == << >>
Field(k, v) == [x \in {k} |-> v]

isPlainObject(v) == v.t = "obj"

RECURSIVE _deepMerge(_, _)
_deepMerge(target, source) ==
  LET deleted == {k \in DOMAIN source : source[k].t = "null"}
      keys == (DOMAIN target \cup DOMAIN source) \ deleted
  IN [k \in keys |->
        IF k \notin DOMAIN source THEN target[k]
        ELSE IF /\ isPlainObject(source[k])
                /\ k \in DOMAIN target
                /\ isPlainObject(target[k])
          THEN JObj(_deepMerge(target[k].f, source[k].f))
          ELSE source[k]]

without(obj, ks) == [k \in DOMAIN obj \ ks |-> obj[k]]

Users == {"alice", "bob"}
GlobalOwner == "global"

NoSkill == [present |-> FALSE]
NoInstructions == JNull

SkillRow(owner, data, instructions) ==
  [present |-> TRUE, owner |-> owner, skill_data |-> data,
   instructions |-> instructions]

SkillCall(op, user, name, newData, found) ==
  [op |-> op, user |-> user, name |-> name, newData |-> newData, found |-> found]

NoSkillCall == SkillCall("none", "", "", EmptyObj, {})

\* INSERT ... ON CONFLICT(name) DO UPDATE SET description
createSkill(user, name, owner) ==
  /\ skills' = IF skills[name].present THEN skills
               ELSE [skills EXCEPT ![name] = SkillRow(owner, EmptyObj, NoInstructions)]
  /\ skillResult' = SkillCall("createSkill", user, name, EmptyObj, {})
  /\ UNCHANGED << promptVars, cronVars, clientVars, memoryVars, fileVars, gatewayVars, bootVars, parserVars, streamVars >>

\* The skill_data updateSkill stores for newData.
mergedSkillData(skillData, newData) ==
  LET hasSkillDataKey == "skill_data" \in DOMAIN newData
      directData == without(newData, {"instructions", "skill_data"})
      noDirect == DOMAIN directData = {}
  IN IF hasSkillDataKey /\ newData["skill_data"].t = "null" /\ noDirect
       THEN EmptyObj
     ELSE IF hasSkillDataKey /\ isPlainObject(newData["skill_data"]) /\ noDirect
       THEN _deepMerge(skillData, newData["skill_data"].f)
     ELSE _deepMerge(skillData, directData)

\* newInstructions !== undefined ? (newInstructions || null) : skill.instructions
mergedInstructions(instructions, newData) ==
  IF "instructions" \in DOMAIN newData
    THEN (IF newData["instructions"] = JStr("") THEN JNull ELSE newData["instructions"])
    ELSE instructions

updateSkill(user, name, newData) ==
  /\ IF skills[name].present
       THEN /\ skills' = [skills EXCEPT
                 ![name].skill_data = mergedSkillData(@, newData),
                 ![name].instructions = mergedInstructions(@, newData)]
            /\ skillResult' = SkillCall("updateSkill", user, name, newData, {name})
       ELSE /\ UNCHANGED skills
            /\ skillResult' = SkillCall("updateSkill", user, name, newData, {})
  /\ UNCHANGED << promptVars, cronVars, clientVars, memoryVars, fileVars, gatewayVars, bootVars, parserVars, streamVars >>

deleteSkill(user, name) ==
  /\ skills' = [skills EXCEPT ![name] = NoSkill]
  /\ skillResult' = SkillCall("deleteSkill", user, name, EmptyObj, {})
  /\ UNCHANGED << promptVars, cronVars, clientVars, memoryVars, fileVars, gatewayVars, bootVars, parserVars, streamVars >>

SkillNames == {"rates", "recipes"}

\* SELECT * FROM skills WHERE name = ?
getSkill(user, name) ==
  /\ skillResult' = SkillCall("getSkill", user, name, EmptyObj,
                              {n \in {name} : skills[n].present})
  /\ UNCHANGED << skills, promptVars, cronVars, clientVars, memoryVars, fileVars, gatewayVars, bootVars, parserVars, streamVars >>

\* SELECT ... FROM skills
listSkills(user) ==
  /\ skillResult' = SkillCall("listSkills", user, "", EmptyObj,
                              {n \in SkillNames : skills[n].present})
  /\ UNCHANGED << skills, promptVars, cronVars, clientVars, memoryVars, fileVars, gatewayVars, bootVars, parserVars, streamVars >>

\* SELECT ... FROM skills WHERE owner = 'global' OR owner = ?
visibleTo(username) ==
  {n \in SkillNames : skills[n].present /\ skills[n].owner \in {GlobalOwner, username}}

listSkillsForUser(user, username) ==
  /\ skillResult' = SkillCall("listSkillsForUser", user, "", EmptyObj, visibleTo(username))
  /\ UNCHANGED << skills, promptVars, cronVars, clientVars, memoryVars, fileVars, gatewayVars, bootVars, parserVars, streamVars >>

\* The Available Skills block of a prompt of this user.
getContextSkills(user) ==
  /\ skillResult' = SkillCall("getContextSkills", user, "", EmptyObj, visibleTo(user))
  /\ UNCHANGED << skills, promptVars, cronVars, clientVars, memoryVars, fileVars, gatewayVars, bootVars, parserVars, streamVars >>

\* search: the skills whose name contains the query.
search(user, query) ==
  /\ skillResult' = SkillCall("search", user, query, EmptyObj,
                              {n \in {query} : skills[n].present})
  /\ UNCHANGED << skills, promptVars, cronVars, clientVars, memoryVars, fileVars, gatewayVars, bootVars, parserVars, streamVars >>

SkillIdle ==
  /\ skills = [n \in SkillNames |-> NoSkill]
  /\ skillResult = NoSkillCall

\* ---------------------------------------------------------------- out-of-band blocks
\* The text of a response is a sequence of tokens: the delimiters, newlines,
\* and pieces of other text.
NL == [k |-> "nl"]
Text(v) == [k |-> "text", v |-> v]
Json(actions) == [k |-> "json", actions |-> actions]
FileStartMarker(path) == [k |-> "file_start", path |-> path]
FileEndMarker == [k |-> "file_end"]
PatchStartMarker(path) == [k |-> "patch_start", path |-> path]
PatchEndMarker == [k |-> "patch_end"]
FindMarker == [k |-> "find"]
ReplaceMarker == [k |-> "replace"]

\* String.indexOf from a position: 0 when there is none.
indexOf(text, tok, from) ==
  LET hits == {i \in from..Len(text) : text[i] = tok}
  IN IF hits = {} THEN 0 ELSE CHOOSE i \in hits : \A j \in hits : i <= j

stripLeadingNewline(text) ==
  IF Len(text) > 0 /\ text[1] = NL THEN Tail(text) ELSE text

stripTrailingNewline_none(text) == text

stripTrailingNewline(text) ==
  IF Len(text) > 0 /\ text[Len(text)] = NL THEN SubSeq(text, 1, Len(text) - 1) ELSE text

\* The while loop over the matches of fileStartRe, from position i on.
RECURSIVE fileBlocksFrom(_, _)
fileBlocksFrom(blockText, i) ==
  IF i > Len(blockText) THEN << >>
  ELSE IF blockText[i].k # "file_start" THEN fileBlocksFrom(blockText, i + 1)
  ELSE LET afterHeader == i + 1
           contentStart == IF afterHeader <= Len(blockText) /\ blockText[afterHeader] = NL
                             THEN afterHeader + 1 ELSE afterHeader
           endIdx == indexOf(blockText, FileEndMarker, contentStart)
       IN IF endIdx = 0 THEN fileBlocksFrom(blockText, i + 1)
          ELSE << [filepath |-> blockText[i].path,
                   content |-> stripTrailingNewline(
                                 SubSeq(blockText, contentStart, endIdx - 1))] >>
               \o fileBlocksFrom(blockText, i + 1)

\* blockContent.split(findMarker)
RECURSIVE splitAt(_, _)
splitAt(text, tok) ==
  LET at == indexOf(text, tok, 1)
  IN IF at = 0 THEN << text >>
     ELSE << SubSeq(text, 1, at - 1) >> \o splitAt(SubSeq(text, at + 1, Len(text)), tok)

\* The FIND/REPLACE pairs of the parts after the first.
RECURSIVE changesOf(_, _)
changesOf(parts, i) ==
  IF i > Len(parts) THEN << >>
  ELSE LET part == parts[i]
           replaceIdx == indexOf(part, ReplaceMarker, 1)
       IN IF replaceIdx = 0 THEN changesOf(parts, i + 1)
          ELSE << [find |-> stripTrailingNewline(stripLeadingNewline(
                              SubSeq(part, 1, replaceIdx - 1))),
                   replace |-> stripTrailingNewline(stripLeadingNewline(
                              SubSeq(part, replaceIdx + 1, Len(part))))] >>
               \o changesOf(parts, i + 1)

RECURSIVE patchBlocksFrom(_, _)
patchBlocksFrom(blockText, i) ==
  IF i > Len(blockText) THEN << >>
  ELSE IF blockText[i].k # "patch_start" THEN patchBlocksFrom(blockText, i + 1)
  ELSE LET blockStart == i + 1
           blockEnd == indexOf(blockText, PatchEndMarker, blockStart)
       IN IF blockEnd = 0 THEN patchBlocksFrom(blockText, i + 1)
          ELSE << [filepath |-> blockText[i].path,
                   changes |-> changesOf(
                     splitAt(SubSeq(blockText, blockStart, blockEnd - 1), FindMarker), 2)] >>
               \o patchBlocksFrom(blockText, i + 1)

extractFileBlocks(buffer) ==
  LET delims == {i \in 1..Len(buffer) : buffer[i].k \in {"file_start", "patch_start"}}
      firstDelimIdx == IF delims = {} THEN 0
                       ELSE CHOOSE i \in delims : \A j \in delims : i <= j
      blockText == SubSeq(buffer, firstDelimIdx, Len(buffer))
  IN IF firstDelimIdx = 0
       THEN [jsonText |-> buffer, fileBlocks |-> << >>, patchBlocks |-> << >>]
       ELSE [jsonText |-> SubSeq(buffer, 1, firstDelimIdx - 1),
             fileBlocks |-> fileBlocksFrom(blockText, 1),
             patchBlocks |-> patchBlocksFrom(blockText, 1)]

\* The actions of the envelope in the JSON part (none when there is no JSON).
actionsOf(jsonText) ==
  IF Len(jsonText) > 0 /\ jsonText[1].k = "json" THEN jsonText[1].actions ELSE << >>

NoPayload == [injected |-> FALSE]
Payload(data) == [injected |-> TRUE, data |-> data]

FileAction(tool, filepath) == [tool |-> tool, filepath |-> filepath]

\* blocks.find(b => b.filepath === fp) || blocks[0]
findBlock(blocks, fp) ==
  LET hits == {i \in 1..Len(blocks) : blocks[i].filepath = fp}
  IN IF hits # {} THEN << blocks[CHOOSE i \in hits : \A j \in hits : i <= j] >>
     ELSE IF Len(blocks) > 0 THEN << blocks[1] >>
     ELSE << >>

\* What the tool of the action is invoked with.
injected(action, files, patches) ==
  IF action.tool = "FileWriteTool" /\ Len(files) > 0
    THEN LET block == findBlock(files, action.filepath)
         IN IF block = << >> THEN NoPayload ELSE Payload(block[1].content)
  ELSE IF action.tool = "PatchFileTool" /\ Len(patches) > 0
    THEN LET block == findBlock(patches, action.filepath)
         IN IF block = << >> THEN NoPayload ELSE Payload(block[1].changes)
  ELSE NoPayload

\* The model's response has arrived: the blocks are taken out of it and the
\* JSON part is parsed.
FileRespond(buffer, sent) ==
  /\ fileIndex = 0
  /\ rawBuffer = << >>
  /\ LET ex == extractFileBlocks(buffer)
     IN /\ rawBuffer' = buffer
        /\ fileActions' = actionsOf(ex.jsonText)
        /\ fileBlocks' = ex.fileBlocks
        /\ patchBlocks' = ex.patchBlocks
  /\ fileIndex' = 1
  /\ fileSent' = sent
  /\ UNCHANGED << fileCalls, promptVars, cronVars, clientVars, memoryVars, skillVars, gatewayVars, bootVars, parserVars, streamVars >>

\* One pass of the for loop over the actions: inject, then run the tool.
FileAct ==
  /\ fileIndex >= 1
  /\ fileIndex <= Len(fileActions)
  /\ LET action == fileActions[fileIndex]
     IN fileCalls' = Append(fileCalls,
          [tool |-> action.tool, filepath |-> action.filepath,
           payload |-> injected(action, fileBlocks, patchBlocks)])
  /\ fileIndex' = fileIndex + 1
  /\ UNCHANGED << rawBuffer, fileActions, fileBlocks, patchBlocks, fileSent,
                  promptVars, cronVars, clientVars, memoryVars, skillVars, gatewayVars, bootVars, parserVars, streamVars >>

FileIdle ==
  /\ rawBuffer = << >>
  /\ fileActions = << >>
  /\ fileBlocks = << >>
  /\ patchBlocks = << >>
  /\ fileIndex = 0
  /\ fileCalls = << >>
  /\ fileSent = << >>

\* ---------------------------------------------------------------- the chat gateway
MaxBubbles == 2

NoGuild == "none"
ConfigGuild == "home"     \* config.guildId
OtherGuild == "elsewhere"

\* An inbound message: its author, its channel and what the channel shows.
Message(bot, type, guild, humans, mentioned) ==
  [authorBot |-> bot, channelType |-> type, guild |-> guild, humans |-> humans,
   mentioned |-> mentioned]

NoMessage == Message(FALSE, "none", NoGuild, 0, FALSE)

\* humans is the size of channel.members once bots and the client itself are
\* filtered out; mentioned is message.mentions.has(client.user).
shouldRespondToMessage(message) ==
  IF message.channelType = "DM" THEN TRUE
  ELSE IF message.guild # NoGuild
       THEN IF message.humans = 1 THEN TRUE ELSE message.mentioned
       ELSE message.mentioned

\* The two blocks of the handler that call runPrompt.
reachesRunPrompt(message) ==
  \/ message.guild # NoGuild /\ message.guild = ConfigGuild /\ ~message.authorBot
  \/ message.guild = NoGuild /\ ~message.authorBot

messageCreate(message) ==
  /\ gwPc \in {"idle", "done"}
  /\ gwMessage' = message
  /\ LET starts == /\ ~message.authorBot
                   /\ shouldRespondToMessage(message)
                   /\ reachesRunPrompt(message)
     IN /\ gwStarted' = starts
        /\ gwPc' = IF starts THEN "running" ELSE "idle"
  /\ statusMessages' = << >>
  /\ gwAnswer' = ""
  /\ gwOutbox' = << >>
  /\ gwDelivered' = << >>
  /\ gwToDelete' = << >>
  /\ gwDeleted' = {}
  /\ gwEarly' = FALSE
  /\ UNCHANGED << promptVars, cronVars, clientVars, memoryVars, skillVars, fileVars, bootVars, parserVars, streamVars >>

\* trackStatus: the bubble sendStatusUpdate returned is pushed.
trackStatus ==
  /\ gwPc = "running"
  /\ Len(statusMessages) < MaxBubbles
  /\ statusMessages' = Append(statusMessages, Len(statusMessages) + 1)
  /\ UNCHANGED << gwPc, gwMessage, gwStarted, gwAnswer, gwOutbox, gwDelivered,
                  gwToDelete, gwDeleted, gwEarly,
                  promptVars, cronVars, clientVars, memoryVars, skillVars, fileVars, bootVars, parserVars, streamVars >>

\* What runPrompt hands the callback.  A result without last_response is
\* what the error paths build; last_response is null when the chain is
\* stopped before its first model turn.
NoResponseKey == [kind |-> "absent"]
NullResponse == [kind |-> "null"]
Response(finalAnswer) == [kind |-> "object", final_answer |-> finalAnswer]
FinalResult(response, bubbles) ==
  [last_response |-> response, status_messages |-> bubbles]

answerOf(finalResult) ==
  IF finalResult.last_response.kind = "object"
  THEN finalResult.last_response.final_answer
  ELSE ""

\* if (answer && answer.trim()) { for (...) sendMessage(...) }: an answer of
\* the menu is shorter than maxLen, so the loop sends it as one chunk.
sendsOf(answer) ==
  IF answer # "" /\ trim(answer) # "" THEN << answer >> ELSE << >>

\* The done callback.  Reading final_answer of a null last_response throws,
\* and the callback ends there; otherwise the chunks are handed to
\* channel.send without waiting and deleteStatusMessages is entered.
onDone(finalResult) ==
  /\ gwPc = "running"
  /\ finalResult.status_messages = statusMessages
  /\ IF finalResult.last_response.kind = "null"
     THEN /\ gwPc' = "done"
          /\ UNCHANGED << gwAnswer, gwOutbox, gwToDelete >>
     ELSE /\ gwAnswer' = answerOf(finalResult)
          /\ gwOutbox' = sendsOf(answerOf(finalResult))
          /\ gwToDelete' = finalResult.status_messages
          /\ gwPc' = IF finalResult.status_messages = << >> THEN "done" ELSE "deleting"
  /\ UNCHANGED << gwMessage, gwStarted, statusMessages, gwDelivered, gwDeleted, gwEarly,
                  promptVars, cronVars, clientVars, memoryVars, skillVars, fileVars, bootVars, parserVars, streamVars >>

\* One pass of deleteStatusMessages' loop; a rejected delete is swallowed.
deleteStatusMessage(ok) ==
  /\ gwPc = "deleting"
  /\ gwToDelete # << >>
  /\ gwDeleted' = IF ok THEN gwDeleted \cup {Head(gwToDelete)} ELSE gwDeleted
  /\ gwEarly' = (gwEarly \/ gwOutbox # << >>)
  /\ gwToDelete' = Tail(gwToDelete)
  /\ gwPc' = IF Tail(gwToDelete) = << >> THEN "done" ELSE "deleting"
  /\ UNCHANGED << gwMessage, gwStarted, statusMessages, gwAnswer, gwOutbox, gwDelivered,
                  promptVars, cronVars, clientVars, memoryVars, skillVars, fileVars, bootVars, parserVars, streamVars >>

\* The promise of a channel.send resolves: the chunk is in the channel.
sendResolves ==
  /\ gwOutbox # << >>
  /\ gwDelivered' = Append(gwDelivered, Head(gwOutbox))
  /\ gwOutbox' = Tail(gwOutbox)
  /\ UNCHANGED << gwPc, gwMessage, gwStarted, statusMessages, gwAnswer, gwToDelete,
                  gwDeleted, gwEarly,
                  promptVars, cronVars, clientVars, memoryVars, skillVars, fileVars, bootVars, parserVars, streamVars >>

GatewayIdle ==
  /\ gwPc = "idle"
  /\ gwMessage = NoMessage
  /\ gwStarted = FALSE
  /\ statusMessages = << >>
  /\ gwAnswer = ""
  /\ gwOutbox = << >>
  /\ gwDelivered = << >>
  /\ gwToDelete = << >>
  /\ gwDeleted = {}
  /\ gwEarly = FALSE

\* ---------------------------------------------------------------- startup
MaxBootTicks == 2

\* The tools array, in registration order.
Tools ==
  << "BashTool", "FileReadTool", "FileWriteTool", "PatchFileTool", "DiscordTool",
     "HttpRequestTool", "CronJobsTool", "MemoryTool", "FileDownloadTool", "WeatherTool",
     "TrelloTool", "WebSearchTool", "PdfTool" >>

\* CronJobsTool.init: setInterval(() => this._tick(), 60_000).
startsScheduler(tool) == tool = "CronJobsTool"

schedulerStarted == "cron" \in {bootLog[i] : i \in 1..Len(bootLog)}

\* One pass of getCompiledToolsContext's loop: await tool.init(), getContext().
toolInit ==
  /\ bootPc = "initTools"
  /\ toolIndex <= Len(Tools)
  /\ bootLog' = LET started == IF startsScheduler(Tools[toolIndex])
                               THEN Append(bootLog, "cron") ELSE bootLog
                IN IF toolIndex = Len(Tools) THEN Append(started, "tools") ELSE started
  /\ toolIndex' = toolIndex + 1
  /\ bootPc' = IF toolIndex = Len(Tools) THEN "compressContext" ELSE "initTools"
  /\ UNCHANGED << bootTicks, tickedAt, promptedAt,
                  promptVars, cronVars, clientVars, memoryVars, skillVars, fileVars, gatewayVars, parserVars, streamVars >>

\* await compressContext(...); global.CondensedToolContext = summary
compressContext ==
  /\ bootPc = "compressContext"
  /\ bootLog' = Append(bootLog, "toolContext")
  /\ bootPc' = "fetchModelInfo"
  /\ UNCHANGED << toolIndex, bootTicks, tickedAt, promptedAt,
                  promptVars, cronVars, clientVars, memoryVars, skillVars, fileVars, gatewayVars, parserVars, streamVars >>

\* await fetchModelInfo()
fetchModelInfo ==
  /\ bootPc = "fetchModelInfo"
  /\ bootLog' = Append(bootLog, "model")
  /\ bootPc' = "startServers"
  /\ UNCHANGED << toolIndex, bootTicks, tickedAt, promptedAt,
                  promptVars, cronVars, clientVars, memoryVars, skillVars, fileVars, gatewayVars, parserVars, streamVars >>

\* The rest of the function runs without an await: loadContextItems,
\* startDiscordHandler (a throw is logged and startup goes on), startIpcServer.
startServers(gatewayOk) ==
  /\ bootPc = "startServers"
  /\ bootLog' = bootLog \o << "contextItems" >>
                        \o (IF gatewayOk THEN << "gateway" >> ELSE << >>)
                        \o << "ipc" >>
  /\ bootPc' = "running"
  /\ UNCHANGED << toolIndex, bootTicks, tickedAt, promptedAt,
                  promptVars, cronVars, clientVars, memoryVars, skillVars, fileVars, gatewayVars, parserVars, streamVars >>

\* The interval set by CronJobsTool.init elapses.
bootTick ==
  /\ schedulerStarted
  /\ bootTicks < MaxBootTicks
  /\ bootTicks' = bootTicks + 1
  /\ tickedAt' = tickedAt \cup {bootPc}
  /\ UNCHANGED << bootPc, toolIndex, bootLog, promptedAt,
                  promptVars, cronVars, clientVars, memoryVars, skillVars, fileVars, gatewayVars, parserVars, streamVars >>

\* A prompt comes in through a listener that has been started.
bootInbound(via) ==
  /\ via \in {bootLog[i] : i \in 1..Len(bootLog)}
  /\ promptedAt' = promptedAt \cup {<< via, bootPc >>}
  /\ UNCHANGED << bootPc, toolIndex, bootLog, bootTicks, tickedAt,
                  promptVars, cronVars, clientVars, memoryVars, skillVars, fileVars, gatewayVars, parserVars, streamVars >>

BootIdle ==
  /\ bootPc = "initTools"
  /\ toolIndex = 1
  /\ bootLog = << >>
  /\ bootTicks = 0
  /\ tickedAt = {}
  /\ promptedAt = {}

\* ---------------------------------------------------------------- the parser on text
\* The JSON values a response can hold besides an envelope: an array of
\* action objects, and one action object with tool and arguments.
ArrayValue(items) == [kind |-> "array", items |-> items]
FlatAction(tool) == [kind |-> "flat", tool |-> tool]

\* A response: a JSON value, alone or followed by text that is not JSON.
RawText(value, trailing) == [value |-> value, trailing |-> trailing]
NoRaw == RawText(NoResponse, FALSE)

\* A sentence with a comma, a word and a colon in it.
Prose == "Done, note: ok"

\* tryParseFromPositionRobust rewrites the slice before JSON.parse:
\* .replace(/([{,]\s*)([a-zA-Z_][a-zA-Z0-9_]*)\s*:/g, '$1"$2":') also matches
\* inside a string value, where the inserted quotes end the string early.
quotingBreaks(value) == value.kind = "envelope" /\ value.final_answer = Prose

\* The strategies of extractFirstJson in their order, up to normalizeResponse:
\* JSON.parse of the whole text; the robust parse from each potential start
\* (the text's first character, then the [{ of a non-empty actions array);
\* the emergency extraction from the first brace to its match.
extractedValue(raw) ==
  IF ~raw.trailing THEN raw.value
  ELSE IF ~quotingBreaks(raw.value) THEN raw.value
  ELSE IF Len(raw.value.actions) > 0 THEN ArrayValue(raw.value.actions)
  ELSE raw.value

extractFirstJsonText(raw) == normalizeResponse(extractedValue(raw))

ParseText(raw) ==
  /\ parseRaw' = raw
  /\ parseOut' = extractFirstJsonText(raw)
  /\ UNCHANGED << promptVars, cronVars, clientVars, memoryVars, skillVars, fileVars,
                  gatewayVars, bootVars, streamVars >>

ParserIdle ==
  /\ parseRaw = NoRaw
  /\ parseOut = NoResponse

\* ---------------------------------------------------------------- streaming
MaxStreamRetries == 2     \* cfg.max_retries
MaxChunks == 2

\* part.trim() is the empty string.
blank(part) == \A i \in 1..Len(part) : part[i] = " "

\* if (!done && part && part.trim()) { buffer += part; }
accumulate(buffer, part) ==
  IF part # << >> /\ ~blank(part) THEN buffer \o part ELSE buffer

\* runPrompt's turn: buffer = "", then await promptOllama(..., callback).
TurnCall ==
  /\ streamPc = "idle"
  /\ streamPc' = "streaming"
  /\ streamMode' = "turn"
  /\ streamAttempt' = 1
  /\ streamChunks' = << >>
  /\ streamBuffer' = << >>
  /\ UNCHANGED << fallbackTimer, callbackFired, streamCallbacks,
                  promptVars, cronVars, clientVars, memoryVars, skillVars, fileVars,
                  gatewayVars, bootVars, parserVars >>

\* emptyPromptResponseMessage: the timer is set, then promptOllama is awaited.
FallbackCall ==
  /\ streamPc = "idle"
  /\ streamPc' = "streaming"
  /\ streamMode' = "fallback"
  /\ streamAttempt' = 1
  /\ streamChunks' = << >>
  /\ streamBuffer' = << >>
  /\ fallbackTimer' = "armed"
  /\ callbackFired' = FALSE
  /\ UNCHANGED << streamCallbacks,
                  promptVars, cronVars, clientVars, memoryVars, skillVars, fileVars,
                  gatewayVars, bootVars, parserVars >>

\* for await (const part of response): callback(part.message.content, false)
StreamChunk(part) ==
  /\ streamPc = "streaming"
  /\ Len(streamChunks) < MaxChunks
  /\ streamChunks' = Append(streamChunks, part)
  /\ streamBuffer' = accumulate(streamBuffer, part)
  /\ UNCHANGED << streamPc, streamMode, streamAttempt, fallbackTimer, callbackFired,
                  streamCallbacks,
                  promptVars, cronVars, clientVars, memoryVars, skillVars, fileVars,
                  gatewayVars, bootVars, parserVars >>

\* The stream ends: callback(fullResponse, true).  The turn's callback does
\* nothing with it; the fallback's done branch clears the timer and calls
\* options.callback, whatever callbackFired is.
StreamEnd ==
  /\ streamPc = "streaming"
  /\ streamPc' = "resolved"
  /\ IF streamMode = "fallback"
       THEN /\ callbackFired' = TRUE
            /\ fallbackTimer' = IF fallbackTimer = "armed" THEN "cleared" ELSE fallbackTimer
            /\ streamCallbacks' = Append(streamCallbacks, "summary")
       ELSE UNCHANGED << callbackFired, fallbackTimer, streamCallbacks >>
  /\ UNCHANGED << streamMode, streamAttempt, streamChunks, streamBuffer,
                  promptVars, cronVars, clientVars, memoryVars, skillVars, fileVars,
                  gatewayVars, bootVars, parserVars >>

\* attemptPrompt throws.  promptOllama tries again with the same callback
\* when the error is retryable and attempts remain, else it throws: the catch
\* of emptyPromptResponseMessage, or the catch of runPrompt.
StreamFail(err) ==
  /\ streamPc = "streaming"
  /\ IF isRetryable(err) /\ streamAttempt < MaxStreamRetries
       THEN /\ streamAttempt' = streamAttempt + 1
            /\ streamChunks' = << >>
            /\ UNCHANGED << streamPc, fallbackTimer, callbackFired, streamCallbacks >>
       ELSE /\ streamPc' = "rejected"
            /\ UNCHANGED << streamAttempt, streamChunks >>
            /\ IF streamMode = "fallback"
                 THEN /\ fallbackTimer' = IF fallbackTimer = "armed" THEN "cleared"
                                          ELSE fallbackTimer
                      /\ callbackFired' = TRUE
                      /\ streamCallbacks' = IF callbackFired THEN streamCallbacks
                                            ELSE Append(streamCallbacks, "apology")
                 ELSE /\ streamCallbacks' = Append(streamCallbacks, "error")
                      /\ UNCHANGED << fallbackTimer, callbackFired >>
  /\ UNCHANGED << streamMode, streamBuffer,
                  promptVars, cronVars, clientVars, memoryVars, skillVars, fileVars,
                  gatewayVars, bootVars, parserVars >>

\* Three minutes have passed since the timer was set.
TimerFires ==
  /\ fallbackTimer = "armed"
  /\ fallbackTimer' = "fired"
  /\ callbackFired' = TRUE
  /\ streamCallbacks' = IF callbackFired THEN streamCallbacks
                        ELSE Append(streamCallbacks, "apology")
  /\ UNCHANGED << streamPc, streamMode, streamAttempt, streamChunks, streamBuffer,
                  promptVars, cronVars, clientVars, memoryVars, skillVars, fileVars,
                  gatewayVars, bootVars, parserVars >>

StreamIdle ==
  /\ streamPc = "idle"
  /\ streamMode = "none"
  /\ streamAttempt = 0
  /\ streamChunks = << >>
  /\ streamBuffer = << >>
  /\ fallbackTimer = "off"
  /\ callbackFired = FALSE
  /\ streamCallbacks = << >>

\* ---------------------------------------------------------------- actions
\* The locals of a runPrompt invocation before it has run.
\* Who enters runPrompt: the Discord handlers pass the message and with it
\* its channel; the IPC server and the cron scheduler pass none.
CallersOf(ch) == IF hasDiscordMessage(ch) THEN {"chat"} ELSE {"ipc", "cron"}

Fresh(c, ch, p) ==
  [self |-> c, pc |-> "idle", channelId |-> ch, prompt |-> p,
   userPrompt |-> TextPrompt(p), toolResults |-> <<>>, loopCount |-> 0,
   loopLimit |-> 0, continueLoop |-> TRUE, lastResponse |-> NoResponse,
   parsedJson |-> NoResponse, actionIndex |-> 0, result |-> NoResult,
   parseKind |-> "unparsed", llmTurns |-> 0,
   abortedChannels |-> abortedChannels,
   pendingContinuations |-> pendingContinuations]

\* runPrompt is entered (a chat message, an IPC prompt or a cron job):
\* prompt validation, then the context awaits.
StartAs(c, ch, p, who) ==
  /\ pc[c] = "idle"
  /\ \A d \in Chains : d < c => pc[d] # "idle"
  /\ LET w == Fresh(c, ch, p)
     IN Commit(c, IF PromptInvalid(p)
                    THEN callback(w, [kind |-> "error",
                                      error |-> "Invalid prompt provided"])
                    ELSE [w EXCEPT !.pc = "ctx"])
  /\ pendingAtStart' = [pendingAtStart EXCEPT ![c] = pendingContinuations[ch].saved]
  /\ caller' = [caller EXCEPT ![c] = who]
  /\ UNCHANGED << configLoopLimit, abortSeen, cronVars, clientVars, memoryVars, skillVars, fileVars, gatewayVars, bootVars, parserVars, streamVars >>

Start(c, ch, p) == \E who \in CallersOf(ch) : StartAs(c, ch, p, who)

Setup(c) ==
  /\ pc[c] = "ctx"
  /\ Commit(c, setup(World(c), configLoopLimit))
  /\ UNCHANGED << configLoopLimit, abortSeen, pendingAtStart, caller, cronVars,
                  clientVars, memoryVars, skillVars, fileVars, gatewayVars, bootVars, parserVars, streamVars >>

\* The 'thinking' status bubble has been sent.
InitStatusDone(c) ==
  /\ pc[c] = "init_status"
  /\ Commit(c, whileTest(World(c)))
  /\ UNCHANGED << configLoopLimit, abortSeen, pendingAtStart, caller, cronVars,
                  clientVars, memoryVars, skillVars, fileVars, gatewayVars, bootVars, parserVars, streamVars >>

\* promptOllama resolved with the streamed text raw.
LlmDone(c, raw) ==
  /\ pc[c] = "llm"
  /\ Commit(c, afterLlm(World(c), raw))
  /\ UNCHANGED << configLoopLimit, abortSeen, pendingAtStart, caller, cronVars,
                  clientVars, memoryVars, skillVars, fileVars, gatewayVars, bootVars, parserVars, streamVars >>

\* promptOllama rejected: the catch block of runPrompt.
LlmError(c) ==
  /\ pc[c] = "llm"
  /\ Commit(c, callback(World(c), [kind |-> "error",
                                   error |-> "Ollama request failed"]))
  /\ UNCHANGED << configLoopLimit, abortSeen, pendingAtStart, caller, cronVars,
                  clientVars, memoryVars, skillVars, fileVars, gatewayVars, bootVars, parserVars, streamVars >>

\* The 'Executing <tool>' status bubble has been sent: the tool is called.
ToolStatusDone(c) ==
  /\ pc[c] = "tool_status"
  /\ Commit(c, [World(c) EXCEPT !.pc = "tool"])
  /\ UNCHANGED << configLoopLimit, abortSeen, pendingAtStart, caller, cronVars,
                  clientVars, memoryVars, skillVars, fileVars, gatewayVars, bootVars, parserVars, streamVars >>

\* executeToolCall settled.
ToolDone(c, res) ==
  /\ pc[c] = "tool"
  /\ res \in executeToolCall(parsedJson[c].actions[actionIndex[c]].tool)
  /\ Commit(c, toolFinished(World(c), res))
  /\ UNCHANGED << configLoopLimit, abortSeen, pendingAtStart, caller, cronVars,
                  clientVars, memoryVars, skillVars, fileVars, gatewayVars, bootVars, parserVars, streamVars >>

\* emptyPromptResponseMessage delivered msg (the summary, or the apology).
FallbackDone(c, msg) ==
  /\ pc[c] = "fallback"
  /\ LET w == World(c)
         last == [w.lastResponse EXCEPT !.final_answer = msg]
     IN Commit(c, callback([w EXCEPT !.lastResponse = last],
                           [kind |-> "fallback", tool_results |-> w.toolResults,
                            last_response |-> last, loop_count |-> w.loopCount]))
  /\ UNCHANGED << configLoopLimit, abortSeen, pendingAtStart, caller, cronVars,
                  clientVars, memoryVars, skillVars, fileVars, gatewayVars, bootVars, parserVars, streamVars >>

\* /stop in a chat channel.
requestAbort(ch) ==
  /\ abortedChannels' = abortedChannels \cup {ch}
  /\ abortSeen' = [c \in Chains |->
       IF InFlight(c) /\ channelId[c] = ch /\ ~abortSeen[c].requested
         THEN [requested |-> TRUE, duringTool |-> pc[c] = "tool",
               loopCount |-> IF pc[c] = "tool" THEN loopCount[c] ELSE 0]
         ELSE abortSeen[c]]
  /\ UNCHANGED << pc, channelId, prompt, userPrompt, toolResults, loopCount,
                  loopLimit, continueLoop, lastResponse, parsedJson, actionIndex,
                  result, parseKind, pendingAtStart, pendingContinuations, llmTurns,
                  configLoopLimit, caller, cronVars, clientVars, memoryVars, skillVars, fileVars, gatewayVars, bootVars, parserVars, streamVars >>

\* /loop_limit set <limit>: the command's option has min_value 1.
loopLimitSet(limit) ==
  /\ limit >= 1
  /\ limit # configLoopLimit
  /\ configLoopLimit' = limit
  /\ UNCHANGED << pc, channelId, prompt, userPrompt, toolResults, loopCount,
                  loopLimit, continueLoop, lastResponse, parsedJson, actionIndex,
                  result, parseKind, pendingAtStart, abortedChannels,
                  pendingContinuations, abortSeen, caller, llmTurns, cronVars,
                  clientVars, memoryVars, skillVars, fileVars, gatewayVars,
                  bootVars, parserVars, streamVars >>

\* No prompt has been submitted.
PromptIdle ==
  /\ pc = [c \in Chains |-> "idle"]
  /\ channelId = [c \in Chains |-> CliChannel]
  /\ prompt = [c \in Chains |-> EmptyPrompt]
  /\ userPrompt = [c \in Chains |-> TextPrompt(EmptyPrompt)]
  /\ toolResults = [c \in Chains |-> <<>>]
  /\ loopCount = [c \in Chains |-> 0]
  /\ loopLimit = [c \in Chains |-> 0]
  /\ continueLoop = [c \in Chains |-> TRUE]
  /\ lastResponse = [c \in Chains |-> NoResponse]
  /\ parsedJson = [c \in Chains |-> NoResponse]
  /\ actionIndex = [c \in Chains |-> 0]
  /\ result = [c \in Chains |-> NoResult]
  /\ parseKind = [c \in Chains |-> "unparsed"]
  /\ pendingAtStart = [c \in Chains |-> FALSE]
  /\ abortedChannels = {}
  /\ pendingContinuations = [ch \in Channels |-> NoContinuation]
  /\ configLoopLimit \in 1..MaxLoopLimit
  /\ abortSeen = [c \in Chains |-> NoAbort]
  /\ caller = [c \in Chains |-> "none"]
  /\ llmTurns = [c \in Chains |-> 0]

Init == PromptIdle /\ CronIdle /\ ClientIdle /\ MemoryIdle /\ SkillIdle /\ FileIdle
          /\ GatewayIdle /\ BootIdle /\ ParserIdle /\ StreamIdle

\* ---------------------------------------------------------------- inputs
SeqsUpTo(S, n) == UNION {[1..k -> S] : k \in 0..n}

ToolCall(t) == [type |-> "tool_call", tool |-> t]

\* Actions as the model may emit them: well-formed calls, a call whose type
\* holds the tool name, and an action that names no tool at all.
LoopActions ==
  {ToolCall("FileReadTool"), [type |-> "BashTool", tool |-> ""], [type |-> "", tool |-> ""]}

LoopResults == {FileReadOk, ThrownResult, BashFailed}

SysActions == {ToolCall("MemoryTool")}

SysResults == {MemoryOk}

Envelopes(actions, n, answers) ==
  {Envelope(a, f, k) : a \in SeqsUpTo(actions, n), f \in answers, k \in BOOLEAN}

LoopResponses == {NoResponse, Fragment} \cup Envelopes(LoopActions, MaxActions, FinalAnswers)
SysResponses == Envelopes(SysActions, SysMaxActions, {"", "ans"})

PromptTask == [wrapped |-> FALSE, words |-> <<"read", "the", "file">>, punct |-> FALSE]
PromptYes == [wrapped |-> TRUE, words |-> <<"Yes">>, punct |-> TRUE]

SysPrompts == {PromptTask, PromptYes}
LoopPrompts == {PromptTask}

\* emptyPromptResponseMessage: what the summarising call streamed, and what
\* the done callback makes of it.
Apology == "No Response could be generated at this time."
CompressedContext == "context"
\* A summary, nothing at all, or nothing but an empty fenced code block.
FenceOnly == "[fence][fence]"
SummaryOutputs == {"summary", "", FenceOnly}

\* The two replace() calls that strip a leading and a trailing code fence.
stripFences(text) == IF text = FenceOnly THEN "" ELSE text

fallbackMessage(summarized) ==
  LET res == IF trim(summarized) # "" THEN trim(summarized) ELSE CompressedContext
  IN trim(stripFences(res))

\* The done callback's message, or the apology of the timer and of the catch.
FallbackMessages == {fallbackMessage(o) : o \in SummaryOutputs} \cup {Apology}
SysFallbackMessages == {"summary"}

\* ---------------------------------------------------------------- specifications
\* The daemon: chains started by chat messages, IPC prompts and cron jobs,
\* interleaved at their awaits, and /stop.
Next ==
  \/ \E c \in Chains, ch \in Channels, p \in SysPrompts : Start(c, ch, p)
  \/ \E c \in Chains : Setup(c)
  \/ \E c \in Chains : InitStatusDone(c)
  \/ \E c \in Chains, raw \in SysResponses : LlmDone(c, raw)
  \/ \E c \in Chains : LlmError(c)
  \/ \E c \in Chains : ToolStatusDone(c)
  \/ \E c \in Chains, res \in SysResults : ToolDone(c, res)
  \/ \E c \in Chains, msg \in SysFallbackMessages : FallbackDone(c, msg)
  \/ \E ch \in DiscordChannels : requestAbort(ch)

Spec == Init /\ [][Next]_vars

\* One chain on its own, entered by an IPC prompt, with every shape of model
\* response.
LoopNext ==
  \/ \E p \in LoopPrompts : StartAs(1, CliChannel, p, "ipc")
  \/ Setup(1)
  \/ \E raw \in LoopResponses : LlmDone(1, raw)
  \/ LlmError(1)
  \/ \E res \in LoopResults : ToolDone(1, res)
  \/ \E msg \in FallbackMessages : FallbackDone(1, msg)

LoopSpec == Init /\ [][LoopNext]_vars

\* One chain on its own while /loop_limit changes the configured limit.
LimitNext ==
  \/ \E p \in LoopPrompts : StartAs(1, CliChannel, p, "ipc")
  \/ Setup(1)
  \/ \E raw \in LoopResponses : LlmDone(1, raw)
  \/ LlmError(1)
  \/ \E res \in LoopResults : ToolDone(1, res)
  \/ \E msg \in FallbackMessages : FallbackDone(1, msg)
  \/ \E limit \in 1..MaxLoopLimit : loopLimitSet(limit)

LimitSpec == Init /\ [][LimitNext]_vars

\* The scheduler on its own: the jobs in the table when it starts, ticks
\* that may run late, and prompt jobs that take as long as they take.
CronJobMenu ==
  {NoJob} \cup {OneTimeJob(a) : a \in {"prompt", "bash"}}
          \cup {ScheduleJob(a) : a \in {"prompt", "bash"}}
          \cup {MalformedJob("bash")}

CronInit ==
  /\ PromptIdle
  /\ ClientIdle
  /\ MemoryIdle
  /\ SkillIdle
  /\ FileIdle
  /\ GatewayIdle
  /\ BootIdle
  /\ ParserIdle
  /\ StreamIdle
  /\ cronJobs \in [JobIds -> CronJobMenu]
  /\ cronClock = 0
  /\ cronTicks = <<>>
  /\ cronFired = <<>>
  /\ cronZone \in [phase : 0..(MinuteLen - 1), tz : {0, 1}]

CronNext ==
  \/ \E late \in {0, 1} : CronTick(late)
  \/ \E t \in 1..MaxTicks : CronPromptDone(t)

CronSpec == CronInit /\ [][CronNext]_vars

\* The LLM client on its own: one promptOllama call, each attempt of which
\* succeeds or fails with one of the errors.
ClientErrors ==
  {Unauthorized, ServerError, TimedOut, RateLimited, RateLimitedRetryAfter,
   Unavailable, ConnectionReset}

ClientInit ==
  /\ PromptIdle
  /\ CronIdle
  /\ MemoryIdle
  /\ SkillIdle
  /\ FileIdle
  /\ GatewayIdle
  /\ BootIdle
  /\ ParserIdle
  /\ StreamIdle
  /\ clientPc = "idle"
  /\ clientAttempt = 0
  /\ clientMax \in 0..MaxRetries
  /\ clientWaited = <<>>
  /\ clientError = NoError

ClientNext ==
  \/ ClientCall
  \/ ClientSuccess
  \/ \E err \in ClientErrors : ClientFail(err)
  \/ ClientWake

ClientSpec == ClientInit /\ [][ClientNext]_vars

\* What the calls of the memory tool store.
MemoryWrites ==
  {[value |-> << "v", "1" >>, category |-> "general"],
   [value |-> << "v", "2" >>, category |-> "notes"]}

\* The memory tool on its own, called from three channels.
MemoryNext ==
  \/ \E n \in ChannelNames, k \in MemoryKeys, w \in MemoryWrites :
       setChannel(n, k, w.value, w.category)
  \/ \E n \in ChannelNames, k \in MemoryKeys : getChannel(n, k)
  \/ \E n \in ChannelNames, k \in MemoryKeys : deleteChannel(n, k)
  \/ \E n \in ChannelNames, cat \in Categories : getChannelByCategory(n, cat)
  \/ \E n \in ChannelNames : listChannelKeys(n)
  \/ \E n \in ChannelNames : purgeChannel(n)
  \/ listChannels

MemoryInit == Init /\ configLoopLimit = 1

MemorySpec == MemoryInit /\ [][MemoryNext]_vars

\* The global scope of the memory tool.
GlobalMemoryNext ==
  \/ \E k \in MemoryKeys, w \in MemoryWrites : setGlobal(k, w.value, w.category)
  \/ \E k \in MemoryKeys : getGlobal(k)
  \/ \E k \in MemoryKeys : deleteGlobal(k)

GlobalMemorySpec == MemoryInit /\ [][GlobalMemoryNext]_vars

\* The skills of the memory tool: two skills, one global and one of alice,
\* and the updates the chains of two users send.
SkillCreations ==
  {[name |-> "rates", owner |-> GlobalOwner], [name |-> "recipes", owner |-> "alice"]}

A_B1 == Field("a", JObj(Field("b", JNum(1))))
A_C2 == Field("a", JObj(Field("c", JNum(2))))
A_BNull == Field("a", JObj(Field("b", JNull)))
A_Arr == Field("a", JArr(<< 1 >>))
Rule == Field("instructions", JStr("rule"))
Wrapped(data) == Field("skill_data", JObj(data))
ClearAll == Field("skill_data", JNull)

SkillUpdates ==
  {A_B1, A_C2, A_BNull, A_Arr, Rule,
   Wrapped(A_C2), Wrapped(A_BNull), Wrapped(Rule), ClearAll}

SkillNext ==
  \/ \E u \in Users, c \in SkillCreations : createSkill(u, c.name, c.owner)
  \/ \E u \in Users, n \in SkillNames, d \in SkillUpdates : updateSkill(u, n, d)
  \/ \E u \in Users, n \in SkillNames : deleteSkill(u, n)
  \/ \E u \in Users, n \in SkillNames : getSkill(u, n)
  \/ \E u \in Users : listSkills(u)
  \/ \E u \in Users, name \in Users : listSkillsForUser(u, name)
  \/ \E u \in Users : getContextSkills(u)
  \/ \E u \in Users, q \in SkillNames : search(u, q)

SkillSpec == MemoryInit /\ [][SkillNext]_vars

\* One turn that writes files: an envelope of up to two file actions, a file
\* block carrying a payload, and possibly a second file block or a patch block.
MaxPayload == 3

PayloadTokens == {Text("a"), Text(" "), NL, FileEndMarker}

Payloads == UNION {[1..n -> PayloadTokens] : n \in 0..MaxPayload}

FileBlockText(path, content) ==
  << FileStartMarker(path), NL >> \o content \o << NL, FileEndMarker >>

PatchBlockText(path) ==
  << PatchStartMarker(path), NL, FindMarker, NL, Text("a"), NL, ReplaceMarker, NL,
     Text("b"), NL, PatchEndMarker >>

SecondBlocks ==
  {<< >>, << NL >> \o FileBlockText("p2", << Text("b") >>), << NL >> \o PatchBlockText("p2")}

FileActionLists ==
  {<< FileAction("FileWriteTool", "p1") >>,
   << FileAction("FileWriteTool", "p3") >>,
   << FileAction("FileWriteTool", "p1"), FileAction("FileWriteTool", "p2") >>,
   << FileAction("FileWriteTool", "p2"), FileAction("FileWriteTool", "p1") >>,
   << FileAction("FileWriteTool", "p1"), FileAction("PatchFileTool", "p2") >>,
   << FileAction("PatchFileTool", "p3"), FileAction("FileWriteTool", "p1") >>}

FileNext ==
  \/ \E acts \in FileActionLists, x \in Payloads, more \in SecondBlocks :
       FileRespond(<< Json(acts), NL >> \o FileBlockText("p1", x) \o more, x)
  \/ FileAct

FileSpec == MemoryInit /\ [][FileNext]_vars

GuildMessages ==
  {Message(bot, "GuildText", g, h, m) :
     bot \in BOOLEAN, g \in {ConfigGuild, OtherGuild}, h \in 1..2, m \in BOOLEAN}

DirectMessages == {Message(bot, "DM", NoGuild, 1, FALSE) : bot \in BOOLEAN}

Messages == GuildMessages \cup DirectMessages

FinalResults(bubbles) ==
  {FinalResult(Response(a), bubbles) : a \in FinalAnswers}
    \cup {FinalResult(NoResponseKey, bubbles), FinalResult(NullResponse, bubbles)}

GatewayNext ==
  \/ \E message \in Messages : messageCreate(message)
  \/ trackStatus
  \/ \E finalResult \in FinalResults(statusMessages) : onDone(finalResult)
  \/ \E ok \in BOOLEAN : deleteStatusMessage(ok)
  \/ sendResolves

GatewaySpec == MemoryInit /\ [][GatewayNext]_vars

BootNext ==
  \/ toolInit
  \/ compressContext
  \/ fetchModelInfo
  \/ \E gatewayOk \in BOOLEAN : startServers(gatewayOk)
  \/ bootTick
  \/ \E via \in {"gateway", "ipc"} : bootInbound(via)

BootSpec == MemoryInit /\ [][BootNext]_vars

\* Tool dispatch on its own: one chain whose model names a registered tool,
\* the same tool in lower case, and a tool that does not exist.
MaxDispatchActions == 2

DispatchActions ==
  {ToolCall("FileReadTool"), ToolCall("filereadtool"), ToolCall("WebTool")}

DispatchResults == {FileReadOk, FileReadFailed, NullResult}

DispatchResponses == Envelopes(DispatchActions, MaxDispatchActions, {"", "ans"})

DispatchNext ==
  \/ StartAs(1, CliChannel, PromptTask, "ipc")
  \/ Setup(1)
  \/ \E raw \in DispatchResponses : LlmDone(1, raw)
  \/ \E res \in DispatchResults : ToolDone(1, res)
  \/ \E msg \in SysFallbackMessages : FallbackDone(1, msg)

DispatchSpec == Init /\ [][DispatchNext]_vars

\* The parser on its own: valid envelopes, bare arrays and bare action
\* objects of valid actions, each alone and with text after it.
MaxParserActions == 2

ParserActions == SeqsUpTo({ToolCall("FileReadTool"), ToolCall("MemoryTool")}, MaxParserActions)

ParserValues ==
  {Envelope(a, f, k) : a \in ParserActions, f \in FinalAnswers \cup {Prose}, k \in BOOLEAN}
    \cup {ArrayValue(a) : a \in ParserActions \ {<< >>}}
    \cup {FlatAction(t) : t \in {"FileReadTool", "MemoryTool"}}

ParserNext == \E value \in ParserValues, trailing \in BOOLEAN : ParseText(RawText(value, trailing))

ParserSpec == MemoryInit /\ [][ParserNext]_vars

\* One promptOllama call and its caller: parts of text, of white space and
\* empty parts, and attempts that break off.
Parts == {<< "a" >>, << " " >>, << >>}

StreamErrors == {ConnectionReset, Unauthorized}

StreamNext ==
  \/ TurnCall
  \/ FallbackCall
  \/ \E part \in Parts : StreamChunk(part)
  \/ StreamEnd
  \/ \E err \in StreamErrors : StreamFail(err)
  \/ TimerFires

StreamSpec == MemoryInit /\ [][StreamNext]_vars

TypeOK ==
  /\ \A c \in Chains : pc[c] \in {"idle", "ctx", "init_status", "llm", "tool_status",
                                  "tool", "fallback", "done"}
  /\ abortedChannels \subseteq Channels
  /\ \A c \in Chains : caller[c] \in {"none", "chat", "ipc", "cron"}

\* ---------------------------------------------------------------- abort and channels
\* A step in which chain c calls executeToolCall.
ToolInitiated(c) ==
  /\ pc'[c] = "tool"
  /\ pc[c] # "tool" \/ actionIndex'[c] # actionIndex[c] \/ loopCount'[c] # loopCount[c]

\* C1: once a stop has been requested for a channel, the chain in flight on
\* that channel initiates no further tool call before it exits.
C1_NoToolAfterAbort ==
  [][\A c \in Chains : ToolInitiated(c) => ~abortSeen[c].requested]_vars

\* C2: at any time at most one prompt chain is active per channel identifier.
C2_OneChainPerChannel ==
  \A c, d \in Chains :
    (c # d /\ InFlight(c) /\ InFlight(d)) => channelId[c] # channelId[d]

\* C6: a stop requested while a tool of iteration N was executing ends the
\* chain with aborted=true, the tool results collected so far and loop_count = N.
C6_AbortDuringTool ==
  \A c \in Chains :
    (pc[c] = "done" /\ abortSeen[c].duringTool) =>
      /\ result[c].kind = "aborted"
      /\ result[c].tool_results = toolResults[c]
      /\ result[c].loop_count = abortSeen[c].loopCount

\* ---------------------------------------------------------------- continuations
SetupStep(c) == pc[c] = "ctx" /\ pc'[c] # "ctx"

\* C5: the first prompt on a channel after a continuation was saved consumes
\* it (so the continuation a prompt consumes was saved before that prompt came
\* in, and a prompt that came in after the save finds it); an affirmative
\* prompt resumes with the saved resume prompt and tool results, any other
\* starts fresh; no continuation remains pending for the channel afterwards.
C5_FirstPromptConsumes ==
  [][\A c \in Chains : SetupStep(c) =>
       LET pending == pendingContinuations[channelId[c]]
       IN /\ pending.saved <=> pendingAtStart[c]
          /\ pendingContinuations'[channelId[c]] = NoContinuation
          /\ IF pending.saved /\ isAffirmativeResponse(prompt[c])
               THEN /\ userPrompt'[c] = pending.resumePrompt
                    /\ toolResults'[c] = pending.toolResults
               ELSE /\ userPrompt'[c] = TextPrompt(prompt[c])
                    /\ toolResults'[c] = <<>>]_vars

\* ---------------------------------------------------------------- the loop
\* A step in which chain c finishes the actions of a parsed turn (the turn
\* is iteration loopCount[c], its response parsedJson'[c]).
TurnCompleted(c) ==
  /\ pc[c] \in {"llm", "tool"}
  /\ pc'[c] \in {"llm", "fallback", "done"}
  /\ parseKind'[c] = "envelope"
  /\ result'[c].kind \notin {"error", "aborted"}

\* The step hands the chain to a further LLM turn.
NextTurnFollows(c) == pc'[c] = "llm" /\ loopCount'[c] = loopCount[c] + 1

IterationEntries(results, n) ==
  {k \in 1..Len(results) : results[k].iter = n /\ results[k].tool # "_system"}

\* C3: a tool call that reports failure (success=false, an error, a shell
\* command that exits non-zero) is followed by at least one more LLM turn that
\* is given the failing result, even with continue=false, unless the loop
\* limit is reached.
C3_FailureForcesTurn ==
  [][\A c \in Chains :
       (/\ TurnCompleted(c)
        /\ loopCount[c] < loopLimit[c]
        /\ \E k \in IterationEntries(toolResults'[c], loopCount[c]) :
             ReportsFailure(toolResults'[c][k].result))
       => /\ NextTurnFollows(c)
          /\ userPrompt'[c].tool_results = toolResults'[c]]_vars

\* The chain has left the loop by itself (no error, no stop).
LoopLeft(c) ==
  /\ pc[c] \in {"fallback", "done"}
  /\ parseKind[c] \in {"envelope", "fragment"}
  /\ result[c].kind \notin {"error", "aborted"}

\* C4: a chain that stops at loop_count = loop_limit with work still pending
\* has saved a continuation with its tool results under its channel and
\* answers with the step-limit question naming loop_limit, whatever kind of
\* turn the last one was.
C4_LimitSavesContinuation ==
  \A c \in Chains :
    (LoopLeft(c) /\ continueLoop[c] /\ loopCount[c] >= loopLimit[c]) =>
      /\ pendingContinuations[channelId[c]].saved
      /\ pendingContinuations[channelId[c]].toolResults = toolResults[c]
      /\ result[c].kind = "limit"
      /\ result[c].last_response.final_answer = StepLimitQuestion(loopLimit[c])

NoToolFailed(c) ==
  \A k \in IterationEntries(toolResults'[c], loopCount[c]) :
    ~ReportsFailure(toolResults'[c][k].result)

\* The step ends the chain normally: the final callback or the fallback summary.
Terminates(c) ==
  \/ pc'[c] = "fallback"
  \/ pc'[c] = "done" /\ result'[c].kind = "success"

\* C7: after a parsed turn in which no tool failed the loop terminates
\* exactly when continue=false and (final_answer is non-empty, a blank answer
\* counting as empty, or the turn has no actions); otherwise, while budget
\* remains, another LLM turn follows.
C7_TerminationRule ==
  [][\A c \in Chains : (TurnCompleted(c) /\ NoToolFailed(c)) =>
       LET turn == parsedJson'[c]
           stop == ~turn.continue
                     /\ (trim(turn.final_answer) # "" \/ Len(turn.actions) = 0)
       IN /\ stop => Terminates(c)
          /\ (~stop /\ loopCount[c] < loopLimit[c]) => NextTurnFollows(c)
          /\ (~stop /\ loopCount[c] >= loopLimit[c]) => ~Terminates(c)]_vars

\* ---------------------------------------------------------------- tools of a turn
ToolBearing(parsed, k) ==
  parsed.actions[k].type = "tool_call" /\ parsed.actions[k].tool # ""

\* tool_results lists the calls in the order of the turns and, within a
\* turn, of the actions.
Ordered(results) ==
  \A i, j \in 1..Len(results) :
    i < j => \/ results[i].iter < results[j].iter
             \/ results[i].iter = results[j].iter /\ results[i].idx < results[j].idx

\* Of turn n of chain c, exactly the tool calls among its first upto actions
\* have finished.
Executed(c, n, upto) ==
  {<<toolResults[c][k].idx, toolResults[c][k].tool>> :
      k \in IterationEntries(toolResults[c], n)}
    = {<<k, parsedJson[c].actions[k].tool>> :
         k \in {i \in 1..upto : ToolBearing(parsedJson[c], i)}}

\* C8: a chain is strictly sequential: while a tool runs, exactly the calls
\* of the earlier actions of the turn have finished; an LLM turn runs only
\* when every call of the previous turn has finished; tool_results is in the
\* order the model emitted the actions.
C8_Sequential ==
  \A c \in Chains :
    /\ Ordered(toolResults[c])
    /\ pc[c] = "tool" =>
         /\ ToolBearing(parsedJson[c], actionIndex[c])
         /\ Executed(c, loopCount[c], actionIndex[c] - 1)
    /\ (pc[c] = "llm" /\ parseKind[c] = "envelope") =>
         Executed(c, loopCount[c] - 1, Len(parsedJson[c].actions))

C8_Witness ==
  \E c \in Chains :
    /\ pc[c] = "llm"
    /\ loopCount[c] = 2
    /\ Cardinality(IterationEntries(toolResults[c], 1)) >= 2

ThrewInTurn(c) ==
  \E k \in IterationEntries(toolResults'[c], loopCount[c]) :
    toolResults'[c][k].result.origin = "caught"

\* C9: a tool that throws does not end the chain: the throw is recorded as
\* {error, exitCode: 1}, the remaining actions of the turn are executed, and
\* a further LLM turn is forced as for any tool failure.
C9_ThrowIsFailure ==
  [][\A c \in Chains : (TurnCompleted(c) /\ ThrewInTurn(c)) =>
       /\ \A k \in IterationEntries(toolResults'[c], loopCount[c]) :
            toolResults'[c][k].result.origin = "caught" =>
              /\ toolResults'[c][k].result.error = "msg"
              /\ toolResults'[c][k].result.exitCode = 1
       /\ \A i \in 1..Len(parsedJson'[c].actions) :
            ToolBearing(parsedJson'[c], i) =>
              \E k \in IterationEntries(toolResults'[c], loopCount[c]) :
                toolResults'[c][k].idx = i
       /\ loopCount[c] < loopLimit[c] => NextTurnFollows(c)]_vars

\* C10: when no JSON can be extracted from a response the chain ends at that
\* turn with an error result: no tool of the turn is executed and no further
\* LLM turn is made.
C10_NoJsonTerminates ==
  \A c \in Chains :
    parseKind[c] = "none" =>
      /\ pc[c] = "done"
      /\ result[c].kind = "error"
      /\ result[c].error = "Invalid JSON response from AI"
      /\ result[c].debug_info.loop_count = loopCount[c]
      /\ IterationEntries(toolResults[c], loopCount[c]) = {}

C10_Witness ==
  \E c \in Chains :
    /\ pc[c] = "done"
    /\ parseKind[c] = "none"
    /\ loopCount[c] = 2
    /\ toolResults[c] # <<>>

\* ---------------------------------------------------------------- malformed responses
\* A step in which the response of an LLM turn is parsed to an object that
\* has none of actions / final_answer / continue.
FragmentStep(c) ==
  /\ pc[c] = "llm"
  /\ parseKind'[c] = "fragment"
  /\ result'[c].kind # "error"

\* A step in which no JSON could be extracted from the response.
NoJsonStep(c) == pc[c] = "llm" /\ parseKind'[c] = "none"

\* The step appends the _system format error to tool_results.
SystemEntryAdded(c) ==
  /\ Len(toolResults'[c]) = Len(toolResults[c]) + 1
  /\ SubSeq(toolResults'[c], 1, Len(toolResults[c])) = toolResults[c]
  /\ toolResults'[c][Len(toolResults'[c])].tool = "_system"

\* C11: a parsed object without actions / final_answer / continue runs no
\* tool, appends the _system format error to tool_results and, while budget
\* remains, is followed by an LLM turn whose input holds that entry.
C11_FormatRetry ==
  [][\A c \in Chains : FragmentStep(c) =>
       /\ SystemEntryAdded(c)
       /\ pc'[c] \notin {"tool", "tool_status"}
       /\ IterationEntries(toolResults'[c], loopCount[c]) = {}
       /\ loopCount[c] < loopLimit[c] =>
            /\ NextTurnFollows(c)
            /\ userPrompt'[c].tool_results = toolResults'[c]]_vars

C11_Witness ==
  \E c \in Chains :
    /\ pc[c] = "llm"
    /\ loopCount[c] = 2
    /\ parseKind[c] = "fragment"
    /\ toolResults[c][Len(toolResults[c])].tool = "_system"

\* C12 as stated: a response with no extractable JSON is recoverable: the
\* _system entry is injected and the loop goes on to another LLM turn.
C12_ParseFailureRecoverable ==
  [][\A c \in Chains : NoJsonStep(c) =>
       /\ SystemEntryAdded(c)
       /\ loopCount[c] < loopLimit[c] => NextTurnFollows(c)]_vars

\* A step in which promptOllama rejected.
LlmErrorStep(c) ==
  pc[c] = "llm" /\ result'[c].kind = "error" /\ parseKind'[c] # "none"

\* C12 amended: only a response whose JSON lacks the canonical fields is
\* recoverable (the _system entry is injected exactly then); a response with
\* no extractable JSON ends the chain with the error result and injects
\* nothing.
C12_OnlyFragmentRecoverable ==
  [][\A c \in Chains : (pc[c] = "llm" /\ ~LlmErrorStep(c)) =>
       /\ SystemEntryAdded(c) <=> parseKind'[c] = "fragment"
       /\ NoJsonStep(c) =>
            /\ toolResults'[c] = toolResults[c]
            /\ pc'[c] = "done"
            /\ result'[c].kind = "error"]_vars

C12_Witness ==
  \E c \in Chains :
    /\ pc[c] = "done"
    /\ parseKind[c] = "none"
    /\ toolResults[c] # <<>>
    /\ toolResults[c][Len(toolResults[c])].tool = "_system"

\* ---------------------------------------------------------------- what the caller receives
HasToolCall(c) == \E k \in 1..Len(toolResults[c]) : toolResults[c][k].tool # "_system"

\* C13: a chain that ends normally after at least one tool call hands the
\* caller a non-empty final_answer: the model's own, or else the fallback
\* summary or the fixed apology.
C13_FallbackAnswer ==
  \A c \in Chains :
    (pc[c] = "done" /\ result[c].kind \in {"success", "fallback"} /\ HasToolCall(c)) =>
      /\ trim(result[c].last_response.final_answer) # ""
      /\ result[c].kind = "fallback" =>
           result[c].last_response.final_answer \in
             {"summary", CompressedContext, Apology}

\* handleIpcRequest's completion callback (output to the CLI): the frames
\* it sends for a run that ended with res, and whether it ends the connection.
ipcAnswer(res) ==
  IF res.kind \in {"error", "none"} THEN ""
  ELSE IF res.last_response.kind = "none" /\ res.kind # "limit" THEN ""
  ELSE res.last_response.final_answer

ipcCallback(res) ==
  [frames |-> <<[type |-> "done", content |-> ipcAnswer(res)]>>, ended |-> TRUE]

\* C14: when the run of an IPC prompt ends the server sends exactly one
\* terminal frame, done with the final answer or error with a message when
\* the run ended in an error, and closes the connection.
C14_IpcTerminalFrame ==
  \A c \in Chains :
    (pc[c] = "done" /\ channelId[c] = CliChannel) =>
      LET conn == ipcCallback(result[c])
      IN /\ Len(conn.frames) = 1
         /\ conn.ended
         /\ IF result[c].kind = "error"
              THEN conn.frames[1].type = "error"
              ELSE /\ conn.frames[1].type = "done"
                   /\ conn.frames[1].content = ipcAnswer(result[c])

\* ---------------------------------------------------------------- the scheduler's fires
Fires(id) == {k \in 1..Len(cronFired) : cronFired[k].job = id}

\* The tick that made fire k has gone on past the job.
MovedOn(k) ==
  LET tick == cronTicks[cronFired[k].tick]
  IN tick.pc = "end" \/ tick.rows[tick.i].id # cronFired[k].job

\* C15: a one_time job is fired by a tick at which now >= time, is deleted
\* once fired, and is never fired by another tick, whatever its action and
\* however long the action runs.
C15_OneTimeOnce ==
  \A k \in 1..Len(cronFired) :
    cronFired[k].type = "one_time" =>
      /\ cronFired[k].now >= cronFired[k].time
      /\ Fires(cronFired[k].job) = {k}
      /\ MovedOn(k) => ~cronJobs[cronFired[k].job].present

\* C16: a schedule job fires exactly once during every UTC minute it names
\* (never twice; and once the minute is over and the ticks have run to their
\* end, not zero times), however late the ticks come.
C16_ScheduleExactlyOnce ==
  \A id \in JobIds :
    (/\ cronJobs[id].present
     /\ cronJobs[id].type = "schedule"
     /\ ~shouldFireThrows(cronJobs[id])) =>
      LET hits == {k \in Fires(id) : minuteOf(cronFired[k].now) = cronJobs[id].minute}
      IN /\ Cardinality(hits) <= 1
         /\ (/\ minuteOf(cronClock) > cronJobs[id].minute
             /\ \A t \in 1..Len(cronTicks) : cronTicks[t].pc = "end")
            => Cardinality(hits) = 1

\* C17: a tick never waits for the action of a job it fired: having started
\* it, the tick records the fire and goes on with the remaining jobs.
C17_TickNeverWaits ==
  \A k \in 1..Len(cronFired) : MovedOn(k)

\* ---------------------------------------------------------------- retries
\* The failures the client is to retry: HTTP 429/502/503/504, network errors.
Transient(err) ==
  \/ err.status_code = 429 \/ err.status_code = 502
  \/ err.status_code = 503 \/ err.status_code = 504
  \/ err.code # ""

Backoff(k) == IF k >= 6 THEN 30000 ELSE 1000 * pow2(k - 1)

SavedBy(d, ch) ==
  /\ pc[d] = "done"
  /\ result[d].kind = "limit"
  /\ channelId[d] = ch

\* C19: a chain started via IPC or cron neither takes a pending continuation
\* away (resumed or discarded) that a chain of a different caller saved, nor
\* clears a stop request.
C19_CallersIndependent ==
  [][\A c \in Chains :
       SetupStep(c) /\ caller[c] \in {"ipc", "cron"} =>
         /\ abortedChannels' = abortedChannels
         /\ pendingContinuations[channelId[c]].saved =>
              \A d \in Chains \ {c} :
                SavedBy(d, channelId[c]) => caller[d] = caller[c]]_vars

\* ---------------------------------------------------------------- memory isolation
\* C20: channel memory is isolated per channel: what getChannel,
\* listChannelKeys and getChannelByCategory return on a channel was written
\* on that channel, and a setChannel on one channel leaves the records of
\* every other channel as they are.
C20_ChannelIsolation ==
  [][/\ memoryResult'.owners \subseteq {memoryResult'.channel}
     /\ memoryResult'.op = "setChannel" =>
          \A t \in TableNames, k \in MemoryKeys :
            /\ channelTables[t][k].present
            /\ memoryOwner[t][k] # memoryResult'.channel
            => channelTables'[t][k] = channelTables[t][k]]_vars

\* ---------------------------------------------------------------- memory tables
ReadOrDelete == {"getChannel", "deleteChannel", "getChannelByCategory", "listChannelKeys"}

\* C21: a read or a delete on a channel leaves the set of channels that
\* listChannels reports as it is: a table comes into existence only through
\* setChannel and disappears only through purgeChannel.
C21_TablesOnlyByWrite ==
  [][/\ memoryResult'.op \in ReadOrDelete =>
          channelsOf(sqliteMaster') = channelsOf(sqliteMaster)
     /\ channelsOf(sqliteMaster') # channelsOf(sqliteMaster) =>
          memoryResult'.op \in {"setChannel", "purgeChannel"}]_vars

\* What get(scope, key) is to return: the value last set and not deleted.
Expected(scope, key) ==
  IF lastSet[scope][key] = NotSet THEN {}
  ELSE {lastSet[scope][key]}

\* C22: get(scope, key) returns exactly the value of the most recent set of
\* that scope and key that no delete followed, and nothing when there is none.
C22_GetReturnsLastSet ==
  [][memoryResult'.op \in {"getChannel", "getGlobal"} =>
       {r.value : r \in memoryResult'.rows} =
         Expected(memoryResult'.channel, memoryResult'.key)]_vars

\* The global half of C22, for the global scope on its own.
GlobalGetReturnsLastSet ==
  [][memoryResult'.op = "getGlobal" =>
       {r.value : r \in memoryResult'.rows} = Expected(GlobalScope, memoryResult'.key)]_vars

GlobalRoundTrip == \E k \in MemoryKeys :
  /\ memoryResult.op = "getGlobal"
  /\ memoryResult.key = k
  /\ memoryResult.rows # {}
  /\ lastSet[GlobalScope][k] = << "v", "2" >>

\* ---------------------------------------------------------------- skill updates
RECURSIVE hasNull(_)
hasNull(obj) ==
  \E k \in DOMAIN obj :
    \/ obj[k].t = "null"
    \/ obj[k].t = "obj" /\ hasNull(obj[k].f)

\* The step is an updateSkill of skill n that found the skill.
Updated(n) ==
  /\ skillResult'.op = "updateSkill"
  /\ skillResult'.name = n
  /\ skillResult'.found = {n}

\* The data of an update, out of its wrapper if it has one.
payload(newData) ==
  IF "skill_data" \in DOMAIN newData /\ newData["skill_data"].t = "obj"
    THEN newData["skill_data"].f
    ELSE without(newData, {"instructions", "skill_data"})

A_B1C2 == Field("a", JObj([x \in {"b", "c"} |-> IF x = "b" THEN JNum(1) ELSE JNum(2)]))

\* C23: updateSkill deep-merges: {a:{b:1}} then {a:{c:2}} gives {a:{b:1,c:2}},
\* then {a:{b:null}} gives {a:{c:2}}, with or without the skill_data wrapper,
\* and no update leaves a null in the stored skill_data.
C23_DeepMergeNoNull ==
  [][\A n \in SkillNames : Updated(n) =>
       LET old == skills[n].skill_data
           new == skills'[n].skill_data
           data == payload(skillResult'.newData)
       IN /\ old = A_B1 /\ data = A_C2 => new = A_B1C2
          /\ old = A_B1C2 /\ data = A_BNull => new = A_C2
          /\ ~hasNull(old) => ~hasNull(new)]_vars

\* C24: no updateSkill writes a key named instructions into skill_data, and
\* the instruction text of an update ends up in the instructions field.
C24_InstructionsTopLevel ==
  [][\A n \in SkillNames : Updated(n) =>
       LET data == payload(skillResult'.newData)
       IN /\ "instructions" \notin DOMAIN skills[n].skill_data
               => "instructions" \notin DOMAIN skills'[n].skill_data
          /\ "instructions" \in DOMAIN skillResult'.newData \cup DOMAIN data
               => skills'[n].instructions = JStr("rule")]_vars

\* C25: what a chain of a user is given of the skills (in its context, by
\* listSkills, getSkill or search) is global or owned by that user.
C25_SkillVisibility ==
  skillResult.op \in {"getContextSkills", "listSkills", "getSkill", "search"} =>
    \A n \in skillResult.found : skills[n].owner \in {GlobalOwner, skillResult.user}

\* ---------------------------------------------------------------- file payloads
\* The calls of FileWriteTool for the file of the first block.
FirstFileCalls ==
  {i \in 1..Len(fileCalls) :
     fileCalls[i].tool = "FileWriteTool" /\ fileCalls[i].filepath = "p1"}

OwnBlock(call) ==
  IF call.tool = "FileWriteTool"
    THEN {Payload(fileBlocks[i].content) :
            i \in {j \in 1..Len(fileBlocks) : fileBlocks[j].filepath = call.filepath}}
    ELSE {Payload(patchBlocks[i].changes) :
            i \in {j \in 1..Len(patchBlocks) : patchBlocks[j].filepath = call.filepath}}

\* C27: an action receives a payload only from a block of its own filepath:
\* without such a block it runs without injected content.
C27_OwnBlockOnly ==
  \A i \in 1..Len(fileCalls) :
    IF OwnBlock(fileCalls[i]) = {}
      THEN fileCalls[i].payload = NoPayload
      ELSE fileCalls[i].payload \in OwnBlock(fileCalls[i])

\* ---------------------------------------------------------------- status bubbles
Recorded == {statusMessages[i] : i \in 1..Len(statusMessages)}

\* C28: after a chain delivers a non-empty final answer every status bubble
\* it recorded is deleted, no deletion is issued while the answer is still
\* on its way, and nothing is deleted when the final answer is empty.
C28_StatusCleanup ==
  /\ gwPc = "done" /\ gwDelivered # << >> => gwDeleted = Recorded
  /\ ~gwEarly
  /\ gwAnswer = "" => gwDeleted = {}

\* ---------------------------------------------------------------- the ingress gate
\* C29: a message written by a human starts a chain exactly when it is a
\* direct message, or one human sees the channel, or the bot is mentioned;
\* a message written by a bot starts none.
C29_IngressGate ==
  gwMessage # NoMessage =>
    (gwStarted <=> /\ ~gwMessage.authorBot
                   /\ \/ gwMessage.channelType = "DM"
                      \/ gwMessage.humans = 1
                      \/ gwMessage.mentioned)

\* ---------------------------------------------------------------- startup order
BootOrder ==
  << "tools", "toolContext", "model", "contextItems", "gateway", "ipc", "cron" >>

rank(component) == CHOOSE i \in 1..Len(BootOrder) : BootOrder[i] = component

\* C30: the components become active in the order tools, tool context,
\* model, context items, gateway, IPC server, cron scheduler; no cron tick
\* fires and no prompt comes in before the steps ahead of it are complete.
C30_StartupOrder ==
  /\ \A i, j \in 1..Len(bootLog) : i < j => rank(bootLog[i]) < rank(bootLog[j])
  /\ tickedAt \subseteq {"running"}
  /\ \A p \in promptedAt : p[2] = "running"

\* ---------------------------------------------------------------- tool names
\* A tool name with its letters in lower case.
caseFolded(tool) == IF tool = "FileReadTool" THEN "filereadtool" ELSE tool

Registered(tool) == \E reg \in toolRegistry : caseFolded(reg) = caseFolded(tool)

\* C31: a tool name of an action is resolved without regard to letter case:
\* a call whose name differs from a registered tool's only in case gets what
\* that tool returns.
C31_CaseInsensitiveDispatch ==
  \A c \in Chains : \A k \in 1..Len(toolResults[c]) :
    LET entry == toolResults[c][k]
    IN \A reg \in toolRegistry :
         (entry.tool # "_system" /\ caseFolded(entry.tool) = caseFolded(reg)) =>
           entry.result \in executeToolCall(reg)

UnknownInTurn(c) ==
  \E k \in IterationEntries(toolResults'[c], loopCount[c]) :
    ~Registered(toolResults'[c][k].tool)

\* C38: an action that names a tool the registry does not hold is recorded
\* as a failed call and forces a further LLM turn while budget remains; the
\* chain never finishes on it.
C38_UnknownToolFails ==
  [][\A c \in Chains : (TurnCompleted(c) /\ UnknownInTurn(c)) =>
       /\ \A k \in IterationEntries(toolResults'[c], loopCount[c]) :
            ~Registered(toolResults'[c][k].tool) =>
              ReportsFailure(toolResults'[c][k].result)
       /\ loopCount[c] < loopLimit[c] => NextTurnFollows(c)
       /\ ~Terminates(c)]_vars

\* ---------------------------------------------------------------- response forms
\* The envelope that says what a value says.
EnvelopeOf(value) ==
  CASE value.kind = "array" -> Envelope(value.items, "", TRUE)
    [] value.kind = "flat" -> Envelope(<< ToolCall(value.tool) >>, "", TRUE)
    [] OTHER -> value

\* C32: a valid envelope, the bare array of its actions, a bare single
\* action and the envelope followed by text that is not JSON are all parsed
\* to the canonical envelope the envelope alone is parsed to: the same
\* actions, the same answer, the same loop decision.
C32_FormsNormaliseAlike ==
  parseRaw # NoRaw =>
    LET canonical == extractFirstJsonText(RawText(EnvelopeOf(parseRaw.value), FALSE))
    IN /\ parseOut.kind = "envelope"
       /\ parseOut.actions = canonical.actions
       /\ parseOut.final_answer = canonical.final_answer
       /\ continueDecision(parseOut) = continueDecision(canonical)

\* ---------------------------------------------------------------- one callback
\* C33: runPrompt calls its caller back exactly once on every way out; here
\* the empty-answer fallback, whose summary races the timer, and the LLM
\* error of a turn.
C33_CallbackOnce ==
  /\ Len(streamCallbacks) <= 1
  /\ (streamMode = "fallback" /\ streamPc \in {"resolved", "rejected"}) =>
       Len(streamCallbacks) = 1
  /\ (streamMode = "turn" /\ streamPc = "rejected") => Len(streamCallbacks) = 1

\* ---------------------------------------------------------------- the buffer
RECURSIVE Flatten(_)
Flatten(parts) == IF parts = << >> THEN << >> ELSE Head(parts) \o Flatten(Tail(parts))

\* C35: the buffer parsed after a turn is the text the successful attempt
\* streamed: every part of it, parts of white space too, and no part of an
\* attempt that failed.
C35_BufferIsStream ==
  (streamMode = "turn" /\ streamPc = "resolved") =>
    streamBuffer = Flatten(streamChunks)

\* ---------------------------------------------------------------- pending aborts
\* An abort has been requested for chain c, which is past its own start and
\* has not come to a poll since.
AbortUnobserved(c) ==
  /\ pc[c] \notin {"idle", "ctx", "done"}
  /\ abortSeen[c].requested
  /\ channelId[c] \in abortedChannels

\* C34: an abort stays pending until the chain it targets has observed it:
\* the start of another prompt on the channel does not clear it.
C34_AbortStaysPending ==
  [][\A c, d \in Chains :
       (c # d /\ SetupStep(d) /\ channelId[d] = channelId[c] /\ AbortUnobserved(c)) =>
         channelId[c] \in abortedChannels']_vars

\* ---------------------------------------------------------------- the resumed prompt
\* C36: a chain that resumes a continuation starts from the prompt of the
\* chain that was interrupted, and the original_prompt its LLM turns carry
\* never changes afterwards: no later turn carries the affirmative reply.
C36_OriginalPromptKept ==
  [][\A c \in Chains :
       /\ (SetupStep(c) /\ pendingContinuations[channelId[c]].saved
             /\ isAffirmativeResponse(prompt[c])) =>
            userPrompt'[c].original_prompt =
              pendingContinuations[channelId[c]].originalPrompt
       /\ pc[c] \notin {"idle", "ctx"} =>
            userPrompt'[c].original_prompt = userPrompt[c].original_prompt]_vars

\* ---------------------------------------------------------------- something to read
\* C37: a message that started a chain leaves the user a message in the
\* channel once the chain is over and nothing is on its way any more: the
\* final answer, or a notice of the error the chain ended in.
C37_LastingMessage ==
  (gwStarted /\ gwPc = "done" /\ gwOutbox = << >>) => gwDelivered # << >>

\* ---------------------------------------------------------------- C39
\* The rows of tick t that are due: _shouldFire returns true for them.
DueRows(t) ==
  {k \in 1..Len(cronTicks[t].rows) :
     /\ ~shouldFireThrows(cronTicks[t].rows[k].job)
     /\ _shouldFire(cronTicks[t].rows[k].job, cronTicks[t].now)}

FiredIn(t, k) ==
  \E f \in 1..Len(cronFired) :
    cronFired[f].tick = t /\ cronFired[f].job = cronTicks[t].rows[k].id

\* C39: once a tick is over, whether it ran to the end of its rows or a job
\* raised an error in it, every enabled job that was due in it has been fired
\* in it.
C39_TickIsolation ==
  \A t \in 1..Len(cronTicks) :
    cronTicks[t].pc \in {"end", "error"} => \A k \in DueRows(t) : FiredIn(t, k)

\* ---------------------------------------------------------------- C40
\* The loop_count an exit reports: at the top level of the result, under
\* debug_info for the parse failure, and not at all for an invalid prompt and
\* for the catch block.
ReportsLoopCount(c) == "loop_count" \in DOMAIN result[c]

Exited(c) == pc[c] = "done"

WithinLimit(c) ==
  /\ llmTurns[c] <= loopLimit[c]
  /\ loopCount[c] <= loopLimit[c]
  /\ (Exited(c) /\ ReportsLoopCount(c)) => result[c].loop_count <= loopLimit[c]
  /\ (Exited(c) /\ "debug_info" \in DOMAIN result[c]) =>
       result[c].debug_info.loop_count <= loopLimit[c]

\* The limit of a chain is the configured one at the time runPrompt reads
\* it, and no later step changes it.
ReadOnce(c) ==
  /\ SetupStep(c) => loopLimit'[c] = configLoopLimit
  /\ ~SetupStep(c) => loopLimit'[c] = loopLimit[c]

\* C40 as stated: every exit of a chain reports a loop_count, and it is at
\* most the chain's loop_limit.
C40_EveryExitReports ==
  \A c \in Chains :
    Exited(c) => (ReportsLoopCount(c) /\ result[c].loop_count <= loopLimit[c])

\* C40: a chain makes at most loop_limit LLM turns in its loop and every
\* loop_count it reports on the way out is at most loop_limit, whatever the
\* model answers and the tools return; the limit is the one configured when
\* the chain read it, and /loop_limit set leaves a chain in flight alone.
C40_LoopBound ==
  /\ [](\A c \in Chains : WithinLimit(c))
  /\ [][\A c \in Chains : ReadOnce(c)]_vars

\* A chain in its second turn under the limit 2 it read, after the
\* configured limit has been lowered to 1 and a format retry has cost a turn.
C40_Witness ==
  \E c \in Chains :
    /\ pc[c] = "tool"
    /\ loopLimit[c] = 2
    /\ llmTurns[c] = 2
    /\ configLoopLimit = 1
    /\ \E k \in 1..Len(toolResults[c]) : toolResults[c][k].tool = "_system"

====
